---- MODULE Spec2Model ----
(***************************************************************************)
(* Verification model of the GeNN code generator core: group merging,      *)
(* parallel group dispatch, kernel dimensioning, presynaptic strategy      *)
(* selection and the generated neuron-update kernels.                      *)
(*                                                                         *)
(* The module holds several independent state machines, one per component. *)
(* Each has its own variables, its own Init/Next and its own               *)
(* specification; the variables of the other components stay at their      *)
(* idle values.                                                            *)
(***************************************************************************)
EXTENDS Integers, Sequences, FiniteSets, TLC

(***************************************************************************)
(* Bounds                                                                  *)
(***************************************************************************)
\* number of groups in the model handed to createMergedGroups
MaxGroups == 3
\* number of groups in the map handed to one genParallelGroup call
MaxDispGroups == 2
\* largest padded size of a group, in threads
MaxPad == 2
\* largest workgroup size of a kernel
MaxWorkGroupSize == 2
\* largest number of threads one member of a merged group asks for
MaxThreads == 3
\* largest number of members dispatched in one kernel
MaxMembers == 2
\* number of strategies a user may register
MaxUserStrategies == 2
\* number of synapse groups looked up
MaxSynapseGroups == 2
\* largest number of neurons of the neuron group
MaxNeurons == 2
\* largest workgroup size of the neuron update kernel
MaxNeuronWorkGroupSize == 2
\* number of delay slots of a neuron group that requires delay
NumDelaySlots == 2
\* number of merged spike-queue-update groups
MaxSpikeQueueGroups == 2
\* number of updateNeurons calls
MaxCalls == 2
\* number of synapse groups of a presynaptic update launch
MaxPsGroups == 2
\* largest number of target neurons of a synapse group
MaxTrgNeurons == 2
\* number of updateSynapses calls (timesteps)
MaxSynapseSteps == 3
\* number of merged synapse-dynamics groups
MaxSynapseDynamicsGroups == 1
\* largest axonal delay, in timesteps
MaxDelaySteps == 1
\* largest number of merged groups of one kind
MaxArgGroups == 2
\* number of named groups of the model merged twice
MaxNamedGroups == 3
\* number of strategy lookups in one run of the generator
MaxLookups == 2
\* largest number of merged incoming synapse groups of a neuron group
MaxMergedInSyn == 1
\* largest number of current sources of a neuron group
MaxCurrentSources == 1
\* largest number of iterations of an emitter's loop over groups
MaxEmitGroups == 2
\* largest length of the kernel source string
MaxKernelChars == 4
\* largest part length
MaxPartLength == 3
\* number of extra-global-parameter routines called in one run
MaxEgpCalls == 2
\* largest workgroup size of the postsynaptic update kernel
MaxPostWorkGroupSize == 3
\* largest number of spike blocks of one launch
MaxSpikeBlocks == 2
\* merged dendritic delay update groups
MaxDendriticDelayGroups == 2
\* getMaxDendriticDelayTimesteps() of a merged group's archetype
MaxDendriticDelayTimesteps == 2
\* merged groups of one role
MaxRoleGroups == 1
\* presynaptic neurons (rows) of a sparse synapse group
MaxSparseSrcNeurons == 2
\* postsynaptic neurons (columns) of a sparse synapse group
MaxSparseTrgNeurons == 2
\* m_KernelWorkGroupSizes[KernelInitializeSparse]
MaxSparseWorkGroupSize == 2
\* neuron groups of the model
MaxNeuronGroups == 3
\* SynapseGroupInternal objects constructed
MaxConstructedSynapseGroups == 3
\* incoming merged postsynaptic inputs of the neuron group
MaxIncomingInputs == 2
\* variables of a postsynaptic model
MaxPsmVars == 2

VARIABLES
    \* ---- ModelSpecMerged::createMergedGroups ----
    mpc,                \* position: "filter", "merge", "build", "done"
    canMerge,           \* the predicate M canMerge, as the set of pairs it accepts
    filter,             \* the predicate F filter, as the set of groups it accepts
    unmergedGroups,     \* std::vector<std::reference_wrapper<const Group>>
    protoMergedGroups,  \* vector of vectors of groups
    mergedGroups,       \* std::vector<MergedGroup>
    \* ---- CUDA::CodeGenerator::genParallelGroup, called as in Backend::genInit ----
    dpc,                \* position: "run", "done", "failed"
    dLists,             \* per dispatcher call, the groups of the map: filter result and padded size
    dCall,              \* the dispatcher call in progress (1..NumDispatchCalls)
    dIdx,               \* the next group of the map of that call
    idStart,            \* size_t &idStart, shared by the successive calls
    popSubs,            \* Substitutions popSubs(&kernelSubs): the variables of this frame
    dOut,               \* what was written to os and handed to the handler, per group
    \* ---- Backend::genKernelDimensions and the idStart of the kernel it launches ----
    kpc,                \* position: "gen" (dispatcher running), "launched"
    kKernel,            \* the kernel being generated
    kWorkGroupSizes,    \* m_KernelWorkGroupSizes
    kMembers,           \* per dispatched member: thread count and the id range it was given
    kIdStart,           \* the idStart / idPreNeuronReset counter of the kernel
    kGlobalWorkSize,    \* the emitted cl::NDRange globalWorkSize
    kLocalWorkSize,     \* the emitted cl::NDRange localWorkSize
    \* ---- Backend::s_PresynapticUpdateStrategies ----
    s_PresynapticUpdateStrategies,  \* the registry, oldest first
    isCompatible,       \* per strategy, the synapse groups its isCompatible accepts
    lookup,             \* the last getPresynapticUpdateStrategy call: argument, registry size, outcome
    \* ---- updateNeuronsKernel as emitted by Backend::genNeuronUpdate, one neuron group ----
    arch,               \* the archetype's flags that shape the emitted kernel
    wgSize,             \* m_KernelWorkGroupSizes[KernelNeuronUpdate]
    numNeurons,         \* group->numNeurons
    spkQuePtr,          \* *group->spkQuePtr at kernel start
    t,                  \* the kernel argument t
    pc,                 \* per thread, the next instruction of the kernel
    spiked,             \* per thread, whether its neuron passed the threshold test
    evented,            \* per thread, whether its neuron raised a spike-like event
    shSpkCount,         \* per workgroup: __local shSpkCount
    shPosSpk,           \* per workgroup: __local shPosSpk
    shSpk,              \* per workgroup: __local shSpk[workgroup size]
    shSpkEvntCount,     \* per workgroup: __local shSpkEvntCount
    shPosSpkEvnt,       \* per workgroup: __local shPosSpkEvnt
    shSpkEvnt,          \* per workgroup: __local shSpkEvnt[workgroup size]
    spkCnt,             \* group->spkCnt, per delay slot
    spk,                \* group->spk
    spkCntEvnt,         \* group->spkCntEvnt, per delay slot
    spkEvnt,            \* group->spkEvnt
    sT,                 \* group->sT
    undefined,          \* a thread used an uninitialised value or wrote outside an array
    passed,             \* per workgroup, the barriers it has passed, in order
    \* ---- preNeuronResetKernel and the emitted updateNeurons(t) ----
    spikeQueueGroups,   \* getMergedNeuronSpikeQueueUpdateGroups(): size and archetype of each
    resetWorkGroupSize, \* m_KernelWorkGroupSizes[KernelPreNeuronReset]
    updateIdStart,      \* idStart after the neuron update dispatcher: its thread count
    groupSpkQuePtr,     \* *group->spkQuePtr of every member <<merged index, member>>
    initialSpkQuePtr,   \* its value before the first call
    calls,              \* number of updateNeurons calls made by the host
    commandQueue,       \* kernels enqueued and not yet finished, oldest first
    enqueued,           \* every kernel ever enqueued, in order
    threadsDone,        \* threads of the running reset kernel that have finished
    resetsDone,         \* number of reset kernels that have completed
    updateSaw,          \* per update kernel run: its call and the pointers it read
    \* ---- write-back of updatePresynapticKernel into group->inSyn ----
    psGroups,           \* the synapse groups of the launch: target size, accumulation path, archetype flag, inSyn array
    psWorkGroupSize,    \* m_KernelWorkGroupSizes[KernelPresynapticUpdate]
    psPc,               \* per thread: "writeBack", "loaded" (between the read and the write of +=), "done"
    psReg,              \* per thread: the value of inSyn it read for a plain +=
    psAtomic,           \* per thread: whether its write-back was an atomic add
    inSyn,              \* the inSyn arrays, per array and element
    \* ---- buildSynapseUpdateProgram and the emitted updateSynapses(t) ----
    idPreSynapseReset,  \* thread count of the pre-synapse-reset kernel (0: no dendritic-delay groups)
    idPresynapticStart, \* thread count of the presynaptic update kernel
    idPostsynapticStart, \* thread count of the postsynaptic update kernel
    numSynapseDynamicsGroups, \* getMergedSynapseDynamicsGroups().size()
    configuredKernels,  \* kernels created by buildSynapseUpdateProgram
    synBuilt,           \* whether buildSynapseUpdateProgram has run
    synCalls,           \* number of updateSynapses calls: the timestep
    synQueue,           \* kernels enqueued and not yet run, oldest first
    synEnqueued,        \* per call, the kernels it enqueued, in order
    synExecuted,        \* kernels the device has run, in order
    synX,               \* per axonal delay d: the synapse variable the synapse-dynamics code assigns
    \* ---- kernel argument setup by the build*Program routines and the launch ----
    argKernel,          \* the kernel being configured
    argSizes,           \* number of merged groups of each merged-struct list of the kernel
    argList,            \* position of the setMergedGroupKernelParams call in progress
    argI,               \* loop variable i of setMergedGroupKernelParams
    clArgs,             \* argument index -> value last given to setArg
    argSets,            \* argument index -> number of setArg calls
    argPhase,           \* groups, scalar or done
    \* ---- two runs of ModelSpecMerged::createMergedGroups over the same set of named groups ----
    detPc,              \* position: "runA", "runB", "done"
    detFilter,          \* the predicate F filter, as the set of group names it accepts
    detCanMerge,        \* the predicate M canMerge, as the set of pairs it accepts
    insertionOrderA,    \* order in which the first run added the groups to the model
    insertionOrderB,    \* order in which the second run added the groups to the model
    mergedA,            \* mergedGroups of the first run
    mergedB,            \* mergedGroups of the second run
    \* ---- the strategy registry over one run of the generator ----
    runRegistry,        \* s_PresynapticUpdateStrategies, oldest first
    runCompatible,      \* per strategy, the synapse groups its isCompatible accepts
    runLookups,         \* per synapse group and call site, the strategy the last lookup there returned
    runRegistryAtFirstLookup, \* the registry as the first lookup of the run found it
    runLateAdds,        \* number of strategies registered after the first lookup
    \* ---- generateNeuronUpdate: the user code blocks of one neuron group ----
    nuConfig,           \* the neuron group: merged inSyn, current sources and which code is provided
    nuBlock,            \* position in the sequence of user code blocks
    nuStep,             \* position in the steps of that block
    nuCode,             \* the std::string holding the code of the block (psCode, iCode, thCode, ...)
    nuThCode,           \* thCode, kept for the true-spike test
    nuChecked,          \* the strings checkUnreplacedVariables has returned normally for
    nuOs,               \* the user code written to the stream: block and string, in order
    nuFailed,           \* checkUnreplacedVariables threw
    \* ---- CodeStream scopes opened and closed by the emitters ----
    csConfig,           \* the emitter that runs and the conditions it branches on
    csPc,               \* next scope token of the emitter
    csStack,            \* per stream, the ids of the open scopes, innermost last
    csFailed,           \* a close token did not match the innermost open scope
    \* ---- Backend::divideKernelStreamInParts ----
    kernelStr,          \* kernelCode.str(), a sequence of characters
    partLength,         \* size_t partLength
    divI,               \* loop variable i
    divOs,              \* the raw-string literals written to os, in order
    \* ---- Backend::genExtraGlobalParamPush and genExtraGlobalParamPull ----
    egpOs,              \* the CodeStream os handed to the routines
    egpCalls,           \* the calls made so far: routine, location and outcome
    \* ---- the spike-block loop of updatePostsynapticKernel, one workgroup ----
    postWgSize,         \* m_KernelWorkGroupSizes[KernelPostsynapticUpdate]
    numSpikes,          \* group->trgSpkCnt[...]
    postPc,             \* per thread: loop variable r and position in the loop body
    postShSpk,          \* __local shSpk: per entry, the index into trgSpk of the spike it holds
    postReads,          \* per thread and iteration, the entries the learning loop read
    \* ---- emission of preSynapseResetKernel (dendritic delay pointer update) ----
    ddGroups,           \* modelMerged.getMergedSynapseDendriticDelayUpdateGroups(): per merged group, getGroups().size() and getMaxDendriticDelayTimesteps()
    ddPc,               \* position in the emitting code
    ddN,                \* loop variable n, as an index into ddGroups
    ddIdPreSynapseReset, \* size_t idPreSynapseReset of this routine
    ddKernels,          \* statements written to synapseUpdateKernels
    ddOs,               \* what was written to the host stream os
    \* ---- merged struct build kernels and host struct-build calls of the three programs ----
    sbMerged,           \* modelMerged: per role, the number of merged groups in getMerged<Role>Groups()
    sbRoutine,          \* the backend routine that runs: genNeuronUpdate, genSynapseUpdate or genInit
    sbPc,               \* position in the routine
    sbBuildKernels,     \* calls of genMergedStructBuildKernels made for the program, in order
    sbStructBuilds,     \* calls of genMergedStructBuild made in the build*Program routine, in order
    \* ---- sparse initialisation: initialize(), initializeSparse() and initializeSparseKernel ----
    siGroup,            \* a SPARSE synapse group with learn-post code: sizes, connectivity (ind, row by row) and whether it has synapse dynamics code
    siHostPc,           \* the host: buildInitializeProgram, initialize(), initializeSparse()
    siQueue,            \* commandQueue (in order): commands enqueued and not yet complete
    siLaunched,         \* initializeSparseKernel is executing
    siPc,               \* per thread of the launch: r, i, idx, colLocation and position in the kernel
    siShRowLength,      \* __local shRowLength of each workgroup
    siColLength,        \* d_colLength
    siRemap,            \* d_remap
    \* ---- construction of SynapseGroupInternal objects ----
    sgSynapseGroups,    \* the synapse groups constructed so far, in order: source and target neuron group of each
    sgInSyn,            \* per neuron group, its list of incoming synapse groups
    sgOutSyn,           \* per neuron group, its list of outgoing synapse groups
    \* ---- barriers in the dispatcher branches of updateNeuronsKernel, one workgroup observed ----
    nbWorkGroupSize,    \* m_KernelWorkGroupSizes[KernelNeuronUpdate]
    nbMergedGroups,     \* getMergedNeuronUpdateGroups(): per merged group the archetype flags and numNeurons of each member
    nbWorkGroup,        \* the workgroup of the launch that is observed
    nbPc,               \* per thread of that workgroup (by local id): position in its branch and barriers passed
    \* ---- postsynaptic model code in the neuron update handler ----
    pmInSyn,            \* ng.getMergedInSyn(): per incoming merged postsynaptic input, facts about m.first and its postsynaptic model
    pmPc,               \* position in the handler: loop and step
    pmM,                \* loop variable m, as an index into pmInSyn
    pmOs                \* statements written to os

mergeVars == <<mpc, canMerge, filter, unmergedGroups, protoMergedGroups, mergedGroups>>

dispVars == <<dpc, dLists, dCall, dIdx, idStart, popSubs, dOut>>

dimVars == <<kpc, kKernel, kWorkGroupSizes, kMembers, kIdStart, kGlobalWorkSize, kLocalWorkSize>>

stratVars == <<s_PresynapticUpdateStrategies, isCompatible, lookup>>

kernVars == <<arch, wgSize, numNeurons, spkQuePtr, t, pc, spiked, evented,
              shSpkCount, shPosSpk, shSpk, shSpkEvntCount, shPosSpkEvnt, shSpkEvnt,
              spkCnt, spk, spkCntEvnt, spkEvnt, sT, undefined, passed>>

resetVars == <<spikeQueueGroups, resetWorkGroupSize, updateIdStart, groupSpkQuePtr,
               initialSpkQuePtr, calls, commandQueue, enqueued, threadsDone,
               resetsDone, updateSaw>>

psVars == <<psGroups, psWorkGroupSize, psPc, psReg, psAtomic, inSyn>>

synVars == <<idPreSynapseReset, idPresynapticStart, idPostsynapticStart,
             numSynapseDynamicsGroups, configuredKernels,
             synBuilt, synCalls, synQueue, synEnqueued,
             synExecuted, synX>>

argVars == <<argKernel, argSizes, argList, argI, clArgs, argSets, argPhase>>

detVars == <<detPc, detFilter, detCanMerge, insertionOrderA, insertionOrderB,
             mergedA, mergedB>>

runVars == <<runRegistry, runCompatible, runLookups,
             runRegistryAtFirstLookup, runLateAdds>>

nuVars == <<nuConfig, nuBlock, nuStep, nuCode, nuThCode, nuChecked, nuOs,
            nuFailed>>

csVars == <<csConfig, csPc, csStack, csFailed>>

divVars == <<kernelStr, partLength, divI, divOs>>

egpVars == <<egpOs, egpCalls>>

postVars == <<postWgSize, numSpikes, postPc, postShSpk, postReads>>

ddVars == <<ddGroups, ddPc, ddN, ddIdPreSynapseReset, ddKernels, ddOs>>

sbVars == <<sbMerged, sbRoutine, sbPc, sbBuildKernels, sbStructBuilds>>

siVars == <<siGroup, siHostPc, siQueue, siLaunched, siPc, siShRowLength,
            siColLength, siRemap>>

sgVars == <<sgSynapseGroups, sgInSyn, sgOutSyn>>

nbVars == <<nbWorkGroupSize, nbMergedGroups, nbWorkGroup, nbPc>>

pmVars == <<pmInSyn, pmPc, pmM, pmOs>>

vars == <<mergeVars, dispVars, dimVars, stratVars, kernVars, resetVars, psVars, synVars, argVars, detVars, runVars, nuVars, csVars, divVars, egpVars, postVars, ddVars, sbVars, siVars, sgVars, nbVars, pmVars>>

\* what each component leaves alone: the variables of the other components
mergeOthers == <<dispVars, dimVars, stratVars, kernVars, resetVars, psVars, synVars, argVars, detVars, runVars, nuVars, csVars, divVars, egpVars, postVars, ddVars, sbVars, siVars, sgVars, nbVars, pmVars>>

dispOthers == <<mergeVars, dimVars, stratVars, kernVars, resetVars, psVars, synVars, argVars, detVars, runVars, nuVars, csVars, divVars, egpVars, postVars, ddVars, sbVars, siVars, sgVars, nbVars, pmVars>>

dimOthers == <<mergeVars, dispVars, stratVars, kernVars, resetVars, psVars, synVars, argVars, detVars, runVars, nuVars, csVars, divVars, egpVars, postVars, ddVars, sbVars, siVars, sgVars, nbVars, pmVars>>

stratOthers == <<mergeVars, dispVars, dimVars, kernVars, resetVars, psVars, synVars, argVars, detVars, runVars, nuVars, csVars, divVars, egpVars, postVars, ddVars, sbVars, siVars, sgVars, nbVars, pmVars>>

kernOthers == <<mergeVars, dispVars, dimVars, stratVars, resetVars, psVars, synVars, argVars, detVars, runVars, nuVars, csVars, divVars, egpVars, postVars, ddVars, sbVars, siVars, sgVars, nbVars, pmVars>>

resetOthers == <<mergeVars, dispVars, dimVars, stratVars, kernVars, psVars, synVars, argVars, detVars, runVars, nuVars, csVars, divVars, egpVars, postVars, ddVars, sbVars, siVars, sgVars, nbVars, pmVars>>

psOthers == <<mergeVars, dispVars, dimVars, stratVars, kernVars, resetVars, synVars, argVars, detVars, runVars, nuVars, csVars, divVars, egpVars, postVars, ddVars, sbVars, siVars, sgVars, nbVars, pmVars>>

synOthers == <<mergeVars, dispVars, dimVars, stratVars, kernVars, resetVars, psVars, argVars, detVars, runVars, nuVars, csVars, divVars, egpVars, postVars, ddVars, sbVars, siVars, sgVars, nbVars, pmVars>>

argOthers == <<mergeVars, dispVars, dimVars, stratVars, kernVars, resetVars, psVars, synVars, detVars, runVars, nuVars, csVars, divVars, egpVars, postVars, ddVars, sbVars, siVars, sgVars, nbVars, pmVars>>

detOthers == <<mergeVars, dispVars, dimVars, stratVars, kernVars, resetVars, psVars, synVars, argVars, runVars, nuVars, csVars, divVars, egpVars, postVars, ddVars, sbVars, siVars, sgVars, nbVars, pmVars>>

runOthers == <<mergeVars, dispVars, dimVars, stratVars, kernVars, resetVars, psVars, synVars, argVars, detVars, nuVars, csVars, divVars, egpVars, postVars, ddVars, sbVars, siVars, sgVars, nbVars, pmVars>>

nuOthers == <<mergeVars, dispVars, dimVars, stratVars, kernVars, resetVars, psVars, synVars, argVars, detVars, runVars, csVars, divVars, egpVars, postVars, ddVars, sbVars, siVars, sgVars, nbVars, pmVars>>

csOthers == <<mergeVars, dispVars, dimVars, stratVars, kernVars, resetVars, psVars, synVars, argVars, detVars, runVars, nuVars, divVars, egpVars, postVars, ddVars, sbVars, siVars, sgVars, nbVars, pmVars>>

divOthers == <<mergeVars, dispVars, dimVars, stratVars, kernVars, resetVars, psVars, synVars, argVars, detVars, runVars, nuVars, csVars, egpVars, postVars, ddVars, sbVars, siVars, sgVars, nbVars, pmVars>>

egpOthers == <<mergeVars, dispVars, dimVars, stratVars, kernVars, resetVars, psVars, synVars, argVars, detVars, runVars, nuVars, csVars, divVars, postVars, ddVars, sbVars, siVars, sgVars, nbVars, pmVars>>

postOthers == <<mergeVars, dispVars, dimVars, stratVars, kernVars, resetVars, psVars, synVars, argVars, detVars, runVars, nuVars, csVars, divVars, egpVars, ddVars, sbVars, siVars, sgVars, nbVars, pmVars>>

ddOthers == <<mergeVars, dispVars, dimVars, stratVars, kernVars, resetVars, psVars, synVars, argVars, detVars, runVars, nuVars, csVars, divVars, egpVars, postVars, sbVars, siVars, sgVars, nbVars, pmVars>>

sbOthers == <<mergeVars, dispVars, dimVars, stratVars, kernVars, resetVars, psVars, synVars, argVars, detVars, runVars, nuVars, csVars, divVars, egpVars, postVars, ddVars, siVars, sgVars, nbVars, pmVars>>

siOthers == <<mergeVars, dispVars, dimVars, stratVars, kernVars, resetVars, psVars, synVars, argVars, detVars, runVars, nuVars, csVars, divVars, egpVars, postVars, ddVars, sbVars, sgVars, nbVars, pmVars>>

sgOthers == <<mergeVars, dispVars, dimVars, stratVars, kernVars, resetVars, psVars, synVars, argVars, detVars, runVars, nuVars, csVars, divVars, egpVars, postVars, ddVars, sbVars, siVars, nbVars, pmVars>>

nbOthers == <<mergeVars, dispVars, dimVars, stratVars, kernVars, resetVars, psVars, synVars, argVars, detVars, runVars, nuVars, csVars, divVars, egpVars, postVars, ddVars, sbVars, siVars, sgVars, pmVars>>

pmOthers == <<mergeVars, dispVars, dimVars, stratVars, kernVars, resetVars, psVars, synVars, argVars, detVars, runVars, nuVars, csVars, divVars, egpVars, postVars, ddVars, sbVars, siVars, sgVars, nbVars>>

(***************************************************************************)
(* Helpers                                                                 *)
(***************************************************************************)
Last(s) == s[Len(s)]

Front(s) == SubSeq(s, 1, Len(s) - 1)

Range(s) == {s[i] : i \in 1..Len(s)}

RECURSIVE AscendingSeq(_)
\* the elements of a set of integers, in increasing order
AscendingSeq(S) ==
    IF S = {} THEN <<>>
    ELSE LET m == CHOOSE x \in S : \A y \in S : x <= y
         IN <<m>> \o AscendingSeq(S \ {m})

(***************************************************************************)
(* ModelSpecMerged::createMergedGroups                                     *)
(***************************************************************************)
\* the std::map<std::string, Group> of the model: groups are numbered in
\* the order of their names, which is the iteration order of the map
Groups == 1..MaxGroups

CanMerge(a, b) == <<a, b>> \in canMerge

\* index of a proto-merged group that takes the group when the archetype test is skipped
FirstCompatibleAny(protos, group) ==
    IF Len(protos) > 0 THEN 1 ELSE 0

\* index of the last compatible proto-merged group instead of the first
FirstCompatibleLast(protos, group) ==
    LET ok == {i \in 1..Len(protos) : CanMerge(protos[i][1], group)}
    IN IF ok = {} THEN 0 ELSE CHOOSE i \in ok : \A j \in ok : j <= i

\* for(auto &p : protoMergedGroups) if(canMerge(p.front().get(), group)) ... break;
\* index of the first proto-merged group whose front is compatible, 0 if none
FirstCompatible(protos, group) ==
    LET ok == {i \in 1..Len(protos) : CanMerge(protos[i][1], group)}
    IN IF ok = {} THEN 0 ELSE CHOOSE i \in ok : \A j \in ok : i <= j

\* the map overload without the filter test: every group of the map is taken
FilterGroupsKeepAll ==
    /\ mpc = "filter"
    /\ unmergedGroups' = AscendingSeq(Groups)
    /\ mpc' = "merge"
    /\ UNCHANGED <<canMerge, filter, protoMergedGroups, mergedGroups>>
    /\ UNCHANGED mergeOthers

\* the map overload: build the vector of references to groups that pass the filter
FilterGroups ==
    /\ mpc = "filter"
    /\ unmergedGroups' = AscendingSeq(Groups \cap filter)
    /\ mpc' = "merge"
    /\ UNCHANGED <<canMerge, filter, protoMergedGroups, mergedGroups>>
    /\ UNCHANGED mergeOthers

\* one iteration of while(!unmergedGroups.empty())
MergeStep ==
    /\ mpc = "merge"
    /\ unmergedGroups # <<>>
    /\ LET group == Last(unmergedGroups)
           i == FirstCompatible(protoMergedGroups, group)
       IN /\ unmergedGroups' = Front(unmergedGroups)
          /\ protoMergedGroups' =
                IF i # 0
                THEN [protoMergedGroups EXCEPT ![i] = Append(@, group)]
                ELSE Append(protoMergedGroups, <<group>>)
    /\ UNCHANGED <<mpc, canMerge, filter, mergedGroups>>
    /\ UNCHANGED mergeOthers

\* the while loop ends
MergeEnd ==
    /\ mpc = "merge"
    /\ unmergedGroups = <<>>
    /\ mpc' = "build"
    /\ UNCHANGED <<canMerge, filter, unmergedGroups, protoMergedGroups, mergedGroups>>
    /\ UNCHANGED mergeOthers

\* mergedGroups.emplace_back(i, ...): the index given to protoMergedGroups[i]
BuildIndex(i) == i

\* one iteration of for(size_t i = 0; i < protoMergedGroups.size(); i++)
BuildStep ==
    /\ mpc = "build"
    /\ Len(mergedGroups) < Len(protoMergedGroups)
    /\ LET i == Len(mergedGroups)
       IN mergedGroups' = Append(mergedGroups,
                                 [index |-> BuildIndex(i),
                                  groups |-> protoMergedGroups[i + 1]])
    /\ UNCHANGED <<mpc, canMerge, filter, unmergedGroups, protoMergedGroups>>
    /\ UNCHANGED mergeOthers

BuildEnd ==
    /\ mpc = "build"
    /\ Len(mergedGroups) = Len(protoMergedGroups)
    /\ mpc' = "done"
    /\ UNCHANGED <<canMerge, filter, unmergedGroups, protoMergedGroups, mergedGroups>>
    /\ UNCHANGED mergeOthers

MergeInit ==
    /\ mpc = "filter"
    /\ canMerge \in SUBSET (Groups \X Groups)
    /\ filter \in SUBSET Groups
    /\ unmergedGroups = <<>>
    /\ protoMergedGroups = <<>>
    /\ mergedGroups = <<>>

MergeNext ==
    \/ FilterGroups
    \/ MergeStep
    \/ MergeEnd
    \/ BuildStep
    \/ BuildEnd

(***************************************************************************)
(* Properties of createMergedGroups                                        *)
(***************************************************************************)
\* the archetype of a merged group: its first member
Archetype(m) == m.groups[1]

IsEquivalence(R) ==
    /\ \A a \in Groups : <<a, a>> \in R
    /\ \A a, b \in Groups : <<a, b>> \in R => <<b, a>> \in R
    /\ \A a, b, c \in Groups : (<<a, b>> \in R /\ <<b, c>> \in R) => <<a, c>> \in R

\* C1 as stated: in every merged group, canMerge(a, b) holds for every pair
\* of distinct members a, b in either order, whatever predicate was supplied.
C1_AllPairsAnyPredicate ==
    \A i \in 1..Len(mergedGroups) :
        \A a, b \in Range(mergedGroups[i].groups) : a # b => CanMerge(a, b)

\* C1 (amended): in every merged group canMerge(archetype, b) holds for every
\* member b placed after the archetype; canMerge(a, b) holds for every pair of
\* members in either order when the supplied predicate is an equivalence
\* relation.
C1_MergeSoundness ==
    \A i \in 1..Len(mergedGroups) :
        LET m == mergedGroups[i]
        IN /\ \A k \in 2..Len(m.groups) : CanMerge(Archetype(m), m.groups[k])
           /\ IsEquivalence(canMerge) =>
                \A a, b \in Range(m.groups) : CanMerge(a, b)

\* a finished merge with a merged group of three members under an equivalence
\* relation, and so with pairs that were never compared by the merger
C1_Witness ==
    /\ mpc = "done"
    /\ IsEquivalence(canMerge)
    /\ \E i \in 1..Len(mergedGroups) : Len(mergedGroups[i].groups) >= 3

\* C2: each group sits in the first proto-merged group, in creation order,
\* whose archetype accepts it (no earlier archetype accepts it), a
\* proto-merged group is started only by a group that no earlier archetype
\* accepts, and the merged group at vector position i (from 0) carries index i
\* and the members of the i-th proto-merged group.
C2_FirstFitAndIndices ==
    /\ \A i \in 1..Len(protoMergedGroups) :
        \A k \in 1..Len(protoMergedGroups[i]) :
            LET g == protoMergedGroups[i][k]
            IN /\ k > 1 => CanMerge(protoMergedGroups[i][1], g)
               /\ \A j \in 1..(i - 1) : ~CanMerge(protoMergedGroups[j][1], g)
    /\ \A i \in 1..Len(mergedGroups) :
        /\ mergedGroups[i].index = i - 1
        /\ mergedGroups[i].groups = protoMergedGroups[i]
    /\ mpc = "done" => Len(mergedGroups) = Len(protoMergedGroups)

\* a finished merge where a group went past an incompatible first
\* proto-merged group and joined the second one
C2_Witness ==
    /\ mpc = "done"
    /\ Len(mergedGroups) >= 2
    /\ Len(mergedGroups[2].groups) >= 2

(***************************************************************************)
(* Substitutions (one frame)                                               *)
(***************************************************************************)
\* a frame with no variable of its own; the parent frame is reached by pointer
EmptyFrame == [n \in {} |-> ""]

\* addVarSubstitution(name, repl, allowOverride): fails when the name exists
\* in this frame and override is not requested
AddVarSubstitution(frame, name, repl, allowOverride) ==
    IF name \in DOMAIN frame /\ ~allowOverride
    THEN [ok |-> FALSE, frame |-> frame]
    ELSE [ok |-> TRUE, frame |-> [n \in (DOMAIN frame) \cup {name} |->
                                        IF n = name THEN repl ELSE frame[n]]]


\* Number of positions at which group g is a member of some merged group
Memberships(g) ==
    Cardinality({<<i, k>> \in (1..Len(mergedGroups)) \X (1..MaxGroups) :
                    k <= Len(mergedGroups[i].groups) /\ mergedGroups[i].groups[k] = g})

RECURSIVE MemberCount(_)
\* sum of the member counts of a sequence of merged groups
MemberCount(merged) ==
    IF merged = <<>> THEN 0 ELSE Len(Head(merged).groups) + MemberCount(Tail(merged))

\* C26: createMergedGroups partitions the filtered input: every group that
\* passes the filter is a member of exactly one merged group, at one position;
\* a group that fails the filter is a member of none; no merged group is
\* empty; the member counts sum to the number of filtered groups.
C26_MergedGroupsPartitionFiltered ==
    mpc = "done" =>
        /\ \A g \in Groups \cap filter : Memberships(g) = 1
        /\ \A g \in Groups \ filter : Memberships(g) = 0
        /\ \A i \in 1..Len(mergedGroups) : Len(mergedGroups[i].groups) >= 1
        /\ MemberCount(mergedGroups) = Cardinality(Groups \cap filter)

\* Merging is complete, a group failed the filter and two groups share a
\* merged group
C26_Witness ==
    /\ mpc = "done"
    /\ Groups \ filter # {}
    /\ \E i \in 1..Len(mergedGroups) : Len(mergedGroups[i].groups) > 1

(***************************************************************************)
(* CUDA::CodeGenerator::genParallelGroup                                   *)
(***************************************************************************)
\* the initialisation kernel runs the dispatcher three times over one idStart:
\* neuron init, dense synapse init, sparse connectivity init
NumDispatchCalls == 3

DispGroup == [pass : BOOLEAN, padded : 1..MaxPad]

DispLists == UNION {[1..n -> DispGroup] : n \in 0..MaxDispGroups}

\* idStart is left where it was
AdvanceIdStartNot(start, paddedSize) == start

\* idStart += paddedSize;
AdvanceIdStart(start, paddedSize) == start + paddedSize

\* one iteration of for(const auto &g : groups) with filter(g.second) true
DispatchGroup ==
    /\ dpc = "run"
    /\ dIdx <= Len(dLists[dCall])
    /\ dLists[dCall][dIdx].pass
    /\ LET paddedSize == dLists[dCall][dIdx].padded
           first == (idStart = 0)
           res == AddVarSubstitution(popSubs, "id", IF first THEN "id" ELSE "lid", FALSE)
           \* if(id < paddedSize) or if(id >= idStart && id < idStart + paddedSize)
           header == [call |-> dCall, idx |-> dIdx, paddedSize |-> paddedSize,
                      lower |-> ~first,
                      lo |-> IF first THEN 0 ELSE idStart,
                      hi |-> IF first THEN paddedSize ELSE idStart + paddedSize,
                      \* const unsigned int lid = id - idStart;
                      lidMinus |-> IF first THEN -1 ELSE idStart]
       IN IF res.ok
          THEN /\ popSubs' = res.frame
               /\ dOut' = Append(dOut, [hdr |-> header, handled |-> TRUE, id |-> res.frame["id"]])
               /\ idStart' = AdvanceIdStart(idStart, paddedSize)
               /\ dIdx' = dIdx + 1
               /\ UNCHANGED dpc
          ELSE \* the registration fails after the header was written: generation stops
               /\ dOut' = Append(dOut, [hdr |-> header, handled |-> FALSE, id |-> ""])
               /\ dpc' = "failed"
               /\ UNCHANGED <<popSubs, idStart, dIdx>>
    /\ UNCHANGED <<dLists, dCall>>
    /\ UNCHANGED dispOthers

\* one iteration with filter(g.second) false
DispatchSkip ==
    /\ dpc = "run"
    /\ dIdx <= Len(dLists[dCall])
    /\ ~dLists[dCall][dIdx].pass
    /\ dIdx' = dIdx + 1
    /\ UNCHANGED <<dpc, dLists, dCall, idStart, popSubs, dOut>>
    /\ UNCHANGED dispOthers

\* the loop of one call ends; the next call builds its own popSubs
DispatchReturn ==
    /\ dpc = "run"
    /\ dIdx > Len(dLists[dCall])
    /\ IF dCall < NumDispatchCalls
       THEN /\ dCall' = dCall + 1
            /\ dIdx' = 1
            /\ popSubs' = EmptyFrame
            /\ UNCHANGED dpc
       ELSE /\ dpc' = "done"
            /\ UNCHANGED <<dCall, dIdx, popSubs>>
    /\ UNCHANGED <<dLists, idStart, dOut>>
    /\ UNCHANGED dispOthers

DispInit ==
    /\ dpc = "run"
    /\ dLists \in [1..NumDispatchCalls -> DispLists]
    /\ dCall = 1
    /\ dIdx = 1
    /\ idStart = 0
    /\ popSubs = EmptyFrame
    /\ dOut = <<>>

DispIdle ==
    /\ dpc = "idle"
    /\ dLists = <<>>
    /\ dCall = 0
    /\ dIdx = 0
    /\ idStart = 0
    /\ popSubs = EmptyFrame
    /\ dOut = <<>>

DispNext ==
    \/ DispatchGroup
    \/ DispatchSkip
    \/ DispatchReturn

(***************************************************************************)
(* Properties of genParallelGroup                                          *)
(***************************************************************************)
\* C3: the k-th group that passes the filter gets [START_k, START_k + PAD_k)
\* with START_0 the incoming idStart (0) and START_(k+1) = START_k + PAD_k,
\* across the successive dispatcher calls that share idStart; any two ranges
\* are disjoint.
C3_RangesContiguousDisjoint ==
    /\ \A k \in 1..Len(dOut) :
        /\ dOut[k].hdr.lo = (IF k = 1 THEN 0 ELSE dOut[k - 1].hdr.hi)
        /\ dOut[k].hdr.hi = dOut[k].hdr.lo + dLists[dOut[k].hdr.call][dOut[k].hdr.idx].padded
    /\ \A j, k \in 1..Len(dOut) :
        j # k => \A id \in dOut[j].hdr.lo..(dOut[j].hdr.hi - 1) :
                    ~(dOut[k].hdr.lo <= id /\ id < dOut[k].hdr.hi)
    /\ dpc = "done" => idStart = (IF dOut = <<>> THEN 0 ELSE dOut[Len(dOut)].hdr.hi)

\* the three calls each dispatched a group, over one idStart
C3_Witness ==
    /\ dpc = "done"
    /\ Len(dOut) = 3
    /\ \A k \in 1..3 : dOut[k].hdr.call = k /\ dOut[k].handled

\* C4 as stated: every group that passes the filter, the first and every
\* later one, reaches the handler, with 'id' resolving to "id" when the range
\* has no lower bound and to "lid" = id - START otherwise, the registration of
\* 'id' succeeding each time.
C4_EveryGroupHandled ==
    /\ dpc # "failed"
    /\ \A k \in 1..Len(dOut) :
        /\ dOut[k].handled
        /\ dOut[k].id = (IF dOut[k].hdr.lower THEN "lid" ELSE "id")
        /\ dOut[k].hdr.lower => dOut[k].hdr.lidMinus = dOut[k].hdr.lo

(***************************************************************************)
(* Backend::genKernelDimensions                                            *)
(***************************************************************************)
\* the kernels whose launch is emitted with genKernelDimensions
PaddedKernels == {"NeuronUpdate", "PresynapticUpdate", "PostsynapticUpdate",
                  "Initialize", "InitializeSparse"}

ResetKernels == {"PreNeuronReset", "PreSynapseReset"}

Kernels == PaddedKernels \cup ResetKernels

\* ceilDivide(numerator, denominator)
CeilDivide(numerator, denominator) == (numerator + denominator - 1) \div denominator

\* padSize(size, blockSize): size rounded up to a multiple of blockSize
PadSize(size, blockSize) == CeilDivide(size, blockSize) * blockSize

\* what one member adds to the id counter of the kernel: the padded-size
\* lambdas of the dispatcher calls, each padding with the workgroup size of
\* the kernel itself; the reset kernels give one thread to each member
MemberThreads(kernel, numThreads, sizes) ==
    IF kernel \in PaddedKernels THEN PadSize(numThreads, sizes[kernel]) ELSE 1

\* globalWorkSize without the multiplication by the workgroup size
GlobalWorkSizeGroupsOnly(numThreads, workGroupSize) ==
    CeilDivide(numThreads, workGroupSize)

\* const size_t numOfWorkGroups = ceilDivide(numThreads, m_KernelWorkGroupSizes[kernel]);
\* globalWorkSize(m_KernelWorkGroupSizes[kernel] * numOfWorkGroups, 1)
GlobalWorkSize(numThreads, workGroupSize) ==
    workGroupSize * CeilDivide(numThreads, workGroupSize)

\* the dispatcher gives the next member its range and advances the counter
DimAddMember(n) ==
    /\ kpc = "gen"
    /\ Len(kMembers) < MaxMembers
    /\ LET size == MemberThreads(kKernel, n, kWorkGroupSizes)
       IN /\ kMembers' = Append(kMembers, [numThreads |-> n, lo |-> kIdStart, hi |-> kIdStart + size])
          /\ kIdStart' = kIdStart + size
    /\ UNCHANGED <<kpc, kKernel, kWorkGroupSizes, kGlobalWorkSize, kLocalWorkSize>>
    /\ UNCHANGED dimOthers

\* if(idStart > 0) { genKernelDimensions(os, kernel, idStart); enqueueNDRangeKernel }
GenKernelDimensions ==
    /\ kpc = "gen"
    /\ kIdStart > 0
    /\ kGlobalWorkSize' = GlobalWorkSize(kIdStart, kWorkGroupSizes[kKernel])
    /\ kLocalWorkSize' = kWorkGroupSizes[kKernel]
    /\ kpc' = "launched"
    /\ UNCHANGED <<kKernel, kWorkGroupSizes, kMembers, kIdStart>>
    /\ UNCHANGED dimOthers

DimInit ==
    /\ kpc = "gen"
    /\ kKernel \in Kernels
    /\ kWorkGroupSizes \in [Kernels -> 1..MaxWorkGroupSize]
    /\ kMembers = <<>>
    /\ kIdStart = 0
    /\ kGlobalWorkSize = 0
    /\ kLocalWorkSize = 0

DimIdle ==
    /\ kpc = "idle"
    /\ kKernel = ""
    /\ kWorkGroupSizes = <<>>
    /\ kMembers = <<>>
    /\ kIdStart = 0
    /\ kGlobalWorkSize = 0
    /\ kLocalWorkSize = 0

DimNext ==
    \/ \E n \in 1..MaxThreads : DimAddMember(n)
    \/ GenKernelDimensions

(***************************************************************************)
(* Properties of genKernelDimensions                                       *)
(***************************************************************************)
RECURSIVE SumPadded(_, _)
\* the sum over the first k members of their thread counts rounded up to
\* the next multiple of w
SumPadded(k, w) ==
    IF k = 0 THEN 0
    ELSE SumPadded(k - 1, w)
         + (CHOOSE p \in 0..(kMembers[k].numThreads + w) :
                /\ p % w = 0
                /\ p >= kMembers[k].numThreads
                /\ p - w < kMembers[k].numThreads)

\* C5: the emitted global work size is the least multiple of the workgroup
\* size that is not below idTotal; for the kernels dispatched over padded
\* member sizes it equals the sum of the padded sizes, and every launched
\* thread id lies in the range of some member.
C5_GlobalWorkSizeCoversExactly ==
    kpc = "launched" =>
        LET w == kWorkGroupSizes[kKernel]
        IN /\ kGlobalWorkSize % w = 0
           /\ kGlobalWorkSize >= kIdStart
           /\ kGlobalWorkSize - w < kIdStart
           /\ kLocalWorkSize = w
           /\ kKernel \in PaddedKernels =>
                /\ kGlobalWorkSize = SumPadded(Len(kMembers), w)
                /\ \A id \in 0..(kGlobalWorkSize - 1) :
                        \E k \in 1..Len(kMembers) : kMembers[k].lo <= id /\ id < kMembers[k].hi

\* a padded kernel launched over two members whose thread counts are not
\* multiples of the workgroup size
C5_Witness ==
    /\ kpc = "launched"
    /\ kKernel \in PaddedKernels
    /\ Len(kMembers) = 2
    /\ \A k \in 1..2 : kMembers[k].numThreads % kWorkGroupSizes[kKernel] # 0

(***************************************************************************)
(* Backend::s_PresynapticUpdateStrategies                                  *)
(***************************************************************************)
BuiltinStrategies == {"PreSpan", "PostSpan"}

UserStrategies == {"User" \o ToString(u) : u \in 1..MaxUserStrategies}

Strategies == BuiltinStrategies \cup UserStrategies

SynapseGroups == 1..MaxSynapseGroups

\* the scan run from the oldest strategy to the most recent
ScanForward(registry, compat, sg) ==
    LET ok == {i \in 1..Len(registry) : sg \in compat[registry[i]]}
    IN IF ok = {} THEN 0 ELSE CHOOSE i \in ok : \A j \in ok : i <= j

\* for(auto s = rbegin(); s != rend(); ++s) if((*s)->isCompatible(sg)) return *s;
\* position of the strategy returned, 0 when the scan runs off the end
ScanReverse(registry, compat, sg) ==
    LET ok == {i \in 1..Len(registry) : sg \in compat[registry[i]]}
    IN IF ok = {} THEN 0 ELSE CHOOSE i \in ok : \A j \in ok : j <= i

\* s_PresynapticUpdateStrategies.push_back(strategy);
AddPresynapticUpdateStrategy(strategy) ==
    /\ Len(s_PresynapticUpdateStrategies) < 2 + MaxUserStrategies
    /\ s_PresynapticUpdateStrategies' = Append(s_PresynapticUpdateStrategies, strategy)
    /\ UNCHANGED <<isCompatible, lookup>>
    /\ UNCHANGED stratOthers

\* getPresynapticUpdateStrategy(sg): returns a strategy or throws std::runtime_error
GetPresynapticUpdateStrategy(sg) ==
    /\ LET i == ScanReverse(s_PresynapticUpdateStrategies, isCompatible, sg)
       IN lookup' = [sg |-> sg, size |-> Len(s_PresynapticUpdateStrategies), pos |-> i,
                     result |-> IF i = 0 THEN "throw" ELSE s_PresynapticUpdateStrategies[i]]
    /\ UNCHANGED <<s_PresynapticUpdateStrategies, isCompatible>>
    /\ UNCHANGED stratOthers

StratInit ==
    /\ s_PresynapticUpdateStrategies = <<"PreSpan", "PostSpan">>
    /\ isCompatible \in [Strategies -> SUBSET SynapseGroups]
    /\ lookup = [sg |-> 0, size |-> 0, pos |-> 0, result |-> "none"]

StratIdle ==
    /\ s_PresynapticUpdateStrategies = <<>>
    /\ isCompatible = <<>>
    /\ lookup = [sg |-> 0, size |-> 0, pos |-> 0, result |-> "none"]

StratNext ==
    \/ \E strategy \in UserStrategies : AddPresynapticUpdateStrategy(strategy)
    \/ \E sg \in SynapseGroups : GetPresynapticUpdateStrategy(sg)

(***************************************************************************)
(* Properties of getPresynapticUpdateStrategy                              *)
(***************************************************************************)
\* C6: the lookup returns the most recently registered strategy that is
\* compatible with the synapse group: the returned strategy is compatible,
\* no strategy registered after it is, a compatible user-registered strategy
\* wins over the built-in ones and PostSpan wins over PreSpan.
C6_LatestCompatibleWins ==
    lookup.result \notin {"none", "throw"} =>
        LET registered == SubSeq(s_PresynapticUpdateStrategies, 1, lookup.size)
            compatibleAt == {i \in 1..lookup.size : lookup.sg \in isCompatible[registered[i]]}
        IN /\ lookup.sg \in isCompatible[lookup.result]
           /\ registered[lookup.pos] = lookup.result
           /\ \A i \in compatibleAt : i <= lookup.pos
           /\ (\E i \in compatibleAt : i > 2) => lookup.pos > 2
           /\ (lookup.pos <= 2 /\ lookup.sg \in isCompatible["PostSpan"]) => lookup.result = "PostSpan"
           /\ lookup.result = "PreSpan" => lookup.sg \notin isCompatible["PostSpan"]

\* a lookup that returned a user strategy although both built-in strategies
\* and an older user strategy were compatible too
C6_Witness ==
    /\ lookup.result \in UserStrategies
    /\ lookup.pos = 4
    /\ \A i \in 1..3 : lookup.sg \in isCompatible[s_PresynapticUpdateStrategies[i]]

(***************************************************************************)
(* updateNeuronsKernel, as Backend::genNeuronUpdate emits it for a model    *)
(* with one neuron group (idStart = 0, so lid = id).  The kernel is the     *)
(* instruction sequence Program(arch); every thread of every workgroup      *)
(* runs it, and a barrier releases a workgroup when all its threads wait.   *)
(***************************************************************************)
\* trueSpike and spikeTime shape the kernel only when there is threshold code
Archetypes ==
    {a \in [thresholdCode : BOOLEAN,       \* !getThresholdConditionCode().empty()
            spikeEvent    : BOOLEAN,       \* isSpikeEventRequired()
            delay         : BOOLEAN,       \* isDelayRequired()
            trueSpike     : BOOLEAN,       \* isTrueSpikeRequired()
            spikeTime     : BOOLEAN] :     \* isSpikeTimeRequired()
        (a.trueSpike \/ a.spikeTime) => a.thresholdCode}

Ins(op, site) == [op |-> op, site |-> site]

\* the shared counters are zeroed, then the first barrier
ProgramInit(a) ==
    (IF a.spikeEvent THEN <<Ins("zeroEvnt", "")>> ELSE <<>>)
    \o (IF a.thresholdCode THEN <<Ins("zeroSpk", "")>> ELSE <<>>)
    \o <<Ins("barrier", "init")>>

\* the neuron body stages spike-like events first, then true spikes
ProgramSim(a) ==
    (IF a.spikeEvent THEN <<Ins("emitEvnt", "")>> ELSE <<>>)
    \o (IF a.thresholdCode THEN <<Ins("emitSpk", "")>> ELSE <<>>)
    \o <<Ins("barrier", "staged")>>

ProgramReserveNoBarrier(a) ==
    (IF a.spikeEvent THEN <<Ins("resEvnt", "")>> ELSE <<>>)
    \o (IF a.thresholdCode THEN <<Ins("resSpk", "")>> ELSE <<>>)

\* each designated thread's reservation is followed by a barrier
ProgramReserve(a) ==
    (IF a.spikeEvent THEN <<Ins("resEvnt", ""), Ins("barrier", "Evnt")>> ELSE <<>>)
    \o (IF a.thresholdCode THEN <<Ins("resSpk", ""), Ins("barrier", "Spk")>> ELSE <<>>)

ProgramCopy(a) ==
    (IF a.spikeEvent THEN <<Ins("copyEvnt", "")>> ELSE <<>>)
    \o (IF a.thresholdCode THEN <<Ins("copySpk", "")>> ELSE <<>>)
    \o (IF a.thresholdCode /\ a.spikeTime THEN <<Ins("spikeTime", "")>> ELSE <<>>)

Program(a) == ProgramInit(a) \o ProgramSim(a) \o ProgramReserve(a) \o ProgramCopy(a)

Threads == 0..(PadSize(numNeurons, wgSize) - 1)

WorkGroups == 0..((PadSize(numNeurons, wgSize) \div wgSize) - 1)

LocalId(tid) == tid % wgSize

GroupId(tid) == tid \div wgSize

NumSlots(a) == IF a.delay THEN NumDelaySlots ELSE 1

\* spkCnt / spkCntEvnt element the reservation adds to
SpkCntSlot(a) == IF a.delay /\ a.trueSpike THEN spkQuePtr ELSE 0

SpkCntEvntSlot(a) == IF a.delay THEN spkQuePtr ELSE 0

\* writeDelayOffset = getCurrentQueueOffset()
WriteDelayOffset == spkQuePtr * numNeurons

QueueOffset(a) == IF a.delay THEN WriteDelayOffset ELSE 0

QueueOffsetTrueSpk(a) == IF a.trueSpike THEN QueueOffset(a) ELSE 0

\* a guard on localId or id alone lets a thread pass the instruction untouched
Applicable(tid, ins) ==
    CASE ins.op \in {"zeroEvnt", "resEvnt"} -> LocalId(tid) = 1
      [] ins.op \in {"zeroSpk", "resSpk"}   -> LocalId(tid) = 0
      [] ins.op \in {"emitEvnt", "emitSpk"} -> tid < numNeurons
      [] OTHER -> TRUE

RECURSIVE NextPc(_, _, _)
NextPc(prog, tid, k) ==
    IF k > Len(prog) \/ Applicable(tid, prog[k]) THEN k ELSE NextPc(prog, tid, k + 1)

\* A __local variable holds any value until a thread writes it.  Once a thread
\* reads one that no thread has written (-1), what the kernel does is
\* undefined: the run is marked and not followed further.
At(tid, op) ==
    /\ tid \in Threads
    /\ ~undefined
    /\ pc[tid] <= Len(Program(arch))
    /\ Program(arch)[pc[tid]].op = op

Advance(tid) == pc' = [pc EXCEPT ![tid] = NextPc(Program(arch), tid, pc[tid] + 1)]

\* a store into a buffer
Store(buf, i, v) == IF i \in DOMAIN buf THEN [buf EXCEPT ![i] = v] ELSE buf

\* if (localId == 1) shSpkEvntCount = 0;
ZeroSpkEvntCount(tid) ==
    /\ At(tid, "zeroEvnt")
    /\ shSpkEvntCount' = [shSpkEvntCount EXCEPT ![GroupId(tid)] = 0]
    /\ Advance(tid)
    /\ UNCHANGED <<arch, wgSize, numNeurons, spkQuePtr, t, spiked, evented,
                   shSpkCount, shPosSpk, shSpk, shPosSpkEvnt, shSpkEvnt,
                   spkCnt, spk, spkCntEvnt, spkEvnt, sT, undefined, passed>>
    /\ UNCHANGED kernOthers

\* if (localId == 0) shSpkCount = 0;
ZeroSpkCount(tid) ==
    /\ At(tid, "zeroSpk")
    /\ shSpkCount' = [shSpkCount EXCEPT ![GroupId(tid)] = 0]
    /\ Advance(tid)
    /\ UNCHANGED <<arch, wgSize, numNeurons, spkQuePtr, t, spiked, evented,
                   shPosSpk, shSpk, shSpkEvntCount, shPosSpkEvnt, shSpkEvnt,
                   spkCnt, spk, spkCntEvnt, spkEvnt, sT, undefined, passed>>
    /\ UNCHANGED kernOthers

\* genEmitSpike(.., "Evnt") inside if(id < group->numNeurons): the event
\* condition of the neuron is an input
EmitSpikeEvnt(tid) ==
    /\ At(tid, "emitEvnt")
    /\ \E fire \in BOOLEAN :
        /\ evented' = [evented EXCEPT ![tid] = fire]
        /\ IF fire
           THEN LET w == GroupId(tid)
                    spkIdx == shSpkEvntCount[w]
                IN  /\ shSpkEvntCount' = [shSpkEvntCount EXCEPT ![w] = spkIdx + 1]
                    /\ shSpkEvnt' = [shSpkEvnt EXCEPT ![w] = Store(@, spkIdx, tid)]
                    /\ undefined' = (spkIdx \notin DOMAIN shSpkEvnt[w])
           ELSE UNCHANGED <<shSpkEvntCount, shSpkEvnt, undefined>>
    /\ Advance(tid)
    /\ UNCHANGED <<arch, wgSize, numNeurons, spkQuePtr, t, spiked,
                   shSpkCount, shPosSpk, shSpk, shPosSpkEvnt,
                   spkCnt, spk, spkCntEvnt, spkEvnt, sT, passed>>
    /\ UNCHANGED kernOthers

\* genEmitSpike(.., "") inside if(id < group->numNeurons): the threshold
\* condition of the neuron is an input
EmitSpike(tid) ==
    /\ At(tid, "emitSpk")
    /\ \E fire \in BOOLEAN :
        /\ spiked' = [spiked EXCEPT ![tid] = fire]
        /\ IF fire
           THEN LET w == GroupId(tid)
                    spkIdx == shSpkCount[w]
                IN  /\ shSpkCount' = [shSpkCount EXCEPT ![w] = spkIdx + 1]
                    /\ shSpk' = [shSpk EXCEPT ![w] = Store(@, spkIdx, tid)]
                    /\ undefined' = (spkIdx \notin DOMAIN shSpk[w])
           ELSE UNCHANGED <<shSpkCount, shSpk, undefined>>
    /\ Advance(tid)
    /\ UNCHANGED <<arch, wgSize, numNeurons, spkQuePtr, t, evented,
                   shPosSpk, shSpkEvntCount, shPosSpkEvnt, shSpkEvnt,
                   spkCnt, spk, spkCntEvnt, spkEvnt, sT, passed>>
    /\ UNCHANGED kernOthers

\* if (localId == 1) if (shSpkEvntCount > 0)
\*     shPosSpkEvnt = atomic_add(&group->spkCntEvnt[..], shSpkEvntCount);
ReserveSpkEvnt(tid) ==
    /\ At(tid, "resEvnt")
    /\ LET w == GroupId(tid)
           slot == SpkCntEvntSlot(arch)
       IN  IF shSpkEvntCount[w] > 0
           THEN /\ shPosSpkEvnt' = [shPosSpkEvnt EXCEPT ![w] = spkCntEvnt[slot]]
                /\ spkCntEvnt' = [spkCntEvnt EXCEPT ![slot] = @ + shSpkEvntCount[w]]
           ELSE UNCHANGED <<shPosSpkEvnt, spkCntEvnt>>
    /\ Advance(tid)
    /\ UNCHANGED <<arch, wgSize, numNeurons, spkQuePtr, t, spiked, evented,
                   shSpkCount, shPosSpk, shSpk, shSpkEvntCount, shSpkEvnt,
                   spkCnt, spk, spkEvnt, sT, undefined, passed>>
    /\ UNCHANGED kernOthers

\* if (localId == 0) if (shSpkCount > 0)
\*     shPosSpk = atomic_add(&group->spkCnt[..], shSpkCount);
ReserveSpk(tid) ==
    /\ At(tid, "resSpk")
    /\ LET w == GroupId(tid)
           slot == SpkCntSlot(arch)
       IN  IF shSpkCount[w] > 0
           THEN /\ shPosSpk' = [shPosSpk EXCEPT ![w] = spkCnt[slot]]
                /\ spkCnt' = [spkCnt EXCEPT ![slot] = @ + shSpkCount[w]]
           ELSE UNCHANGED <<shPosSpk, spkCnt>>
    /\ Advance(tid)
    /\ UNCHANGED <<arch, wgSize, numNeurons, spkQuePtr, t, spiked, evented,
                   shSpkCount, shSpk, shSpkEvntCount, shPosSpkEvnt, shSpkEvnt,
                   spk, spkCntEvnt, spkEvnt, sT, undefined, passed>>
    /\ UNCHANGED kernOthers

\* if (localId < shSpkEvntCount)
\*     group->spkEvnt[queueOffset + shPosSpkEvnt + localId] = shSpkEvnt[localId];
CopySpkEvnt(tid) ==
    /\ At(tid, "copyEvnt")
    /\ LET w == GroupId(tid)
           i == QueueOffset(arch) + shPosSpkEvnt[w] + LocalId(tid)
       IN  IF shSpkEvntCount[w] = -1
           THEN /\ undefined' = TRUE
                /\ spkEvnt' = spkEvnt
           ELSE IF LocalId(tid) < shSpkEvntCount[w]
           THEN /\ spkEvnt' = Store(spkEvnt, i, shSpkEvnt[w][LocalId(tid)])
                /\ undefined' = (shPosSpkEvnt[w] = -1 \/ i \notin DOMAIN spkEvnt
                                    \/ shSpkEvnt[w][LocalId(tid)] = -1)
           ELSE UNCHANGED <<spkEvnt, undefined>>
    /\ Advance(tid)
    /\ UNCHANGED <<arch, wgSize, numNeurons, spkQuePtr, t, spiked, evented,
                   shSpkCount, shPosSpk, shSpk, shSpkEvntCount, shPosSpkEvnt, shSpkEvnt,
                   spkCnt, spk, spkCntEvnt, sT, passed>>
    /\ UNCHANGED kernOthers

\* if (localId < shSpkCount) { n = shSpk[localId];
\*     group->spk[queueOffsetTrueSpk + shPosSpk + localId] = n;
CopySpk(tid) ==
    /\ At(tid, "copySpk")
    /\ LET w == GroupId(tid)
           n == shSpk[w][LocalId(tid)]
           i == QueueOffsetTrueSpk(arch) + shPosSpk[w] + LocalId(tid)
       IN  IF shSpkCount[w] = -1
           THEN /\ undefined' = TRUE
                /\ spk' = spk
           ELSE IF LocalId(tid) < shSpkCount[w]
           THEN /\ spk' = Store(spk, i, n)
                /\ undefined' = (shPosSpk[w] = -1 \/ i \notin DOMAIN spk \/ n = -1)
           ELSE UNCHANGED <<spk, undefined>>
    /\ Advance(tid)
    /\ UNCHANGED <<arch, wgSize, numNeurons, spkQuePtr, t, spiked, evented,
                   shSpkCount, shPosSpk, shSpk, shSpkEvntCount, shPosSpkEvnt, shSpkEvnt,
                   spkCnt, spkCntEvnt, spkEvnt, sT, passed>>
    /\ UNCHANGED kernOthers

\* the statement isSpikeTimeRequired() adds to the block above:
\*     group->spk[queueOffset + n] = t; }
WriteSpikeTime(tid) ==
    /\ At(tid, "spikeTime")
    /\ LET w == GroupId(tid)
           n == shSpk[w][LocalId(tid)]
           i == QueueOffset(arch) + n
       IN  IF LocalId(tid) < shSpkCount[w]
           THEN /\ spk' = Store(spk, i, t)
                /\ undefined' = (i \notin DOMAIN spk \/ n = -1)
           ELSE UNCHANGED <<spk, undefined>>
    /\ Advance(tid)
    /\ UNCHANGED <<arch, wgSize, numNeurons, spkQuePtr, t, spiked, evented,
                   shSpkCount, shPosSpk, shSpk, shSpkEvntCount, shPosSpkEvnt, shSpkEvnt,
                   spkCnt, spkCntEvnt, spkEvnt, sT, passed>>
    /\ UNCHANGED kernOthers

\* barrier(CLK_LOCAL_MEM_FENCE): workgroup w goes on once all its threads wait
Barrier(w) ==
    /\ w \in WorkGroups
    /\ \A tid \in Threads : GroupId(tid) = w => At(tid, "barrier")
    /\ \A tid \in Threads : GroupId(tid) = w => pc[tid] = pc[w * wgSize]
    /\ pc' = [tid \in Threads |->
                IF GroupId(tid) = w THEN NextPc(Program(arch), tid, pc[tid] + 1)
                                    ELSE pc[tid]]
    /\ passed' = [passed EXCEPT ![w] = Append(@, Program(arch)[pc[w * wgSize]].site)]
    /\ UNCHANGED <<arch, wgSize, numNeurons, spkQuePtr, t, spiked, evented,
                   shSpkCount, shPosSpk, shSpk, shSpkEvntCount, shPosSpkEvnt, shSpkEvnt,
                   spkCnt, spk, spkCntEvnt, spkEvnt, sT, undefined>>
    /\ UNCHANGED kernOthers

\* A __local variable no thread has written yet is marked -1.  The count of
\* the written slot is zero at kernel start (preNeuronResetKernel).
KernInit ==
    /\ arch \in Archetypes
    /\ wgSize \in 1..MaxNeuronWorkGroupSize
    /\ numNeurons \in 1..MaxNeurons
    /\ spkQuePtr \in 0..(NumSlots(arch) - 1)
    /\ t \in (IF arch.spikeTime THEN {0, MaxNeurons} ELSE {0})
    /\ pc = [tid \in Threads |-> NextPc(Program(arch), tid, 1)]
    /\ spiked = [tid \in Threads |-> FALSE]
    /\ evented = [tid \in Threads |-> FALSE]
    /\ shSpkCount = [w \in WorkGroups |-> -1]
    /\ shSpkEvntCount = [w \in WorkGroups |-> -1]
    /\ shPosSpk = [w \in WorkGroups |-> -1]
    /\ shPosSpkEvnt = [w \in WorkGroups |-> -1]
    /\ shSpk = [w \in WorkGroups |-> [i \in 0..(wgSize - 1) |-> -1]]
    /\ shSpkEvnt = [w \in WorkGroups |-> [i \in 0..(wgSize - 1) |-> -1]]
    /\ spkCnt = [s \in 0..(NumSlots(arch) - 1) |-> 0]
    /\ spkCntEvnt = [s \in 0..(NumSlots(arch) - 1) |-> 0]
    /\ spk = [i \in 0..(NumSlots(arch) * numNeurons - 1) |-> -1]
    /\ spkEvnt = [i \in 0..(NumSlots(arch) * numNeurons - 1) |-> -1]
    /\ sT = [i \in 0..(NumSlots(arch) * numNeurons - 1) |-> -1]
    /\ undefined = FALSE
    /\ passed = [w \in WorkGroups |-> <<>>]

KernIdle ==
    /\ arch = [thresholdCode |-> FALSE, spikeEvent |-> FALSE, delay |-> FALSE,
               trueSpike |-> FALSE, spikeTime |-> FALSE]
    /\ wgSize = 1
    /\ numNeurons = 1
    /\ spkQuePtr = 0
    /\ t = 0
    /\ pc = <<>>
    /\ spiked = <<>>
    /\ evented = <<>>
    /\ shSpkCount = <<>>
    /\ shPosSpk = <<>>
    /\ shSpk = <<>>
    /\ shSpkEvntCount = <<>>
    /\ shPosSpkEvnt = <<>>
    /\ shSpkEvnt = <<>>
    /\ spkCnt = <<>>
    /\ spk = <<>>
    /\ spkCntEvnt = <<>>
    /\ spkEvnt = <<>>
    /\ sT = <<>>
    /\ undefined = FALSE
    /\ passed = <<>>

\* thread and workgroup ids of the largest launch
ThreadIds == 0..(MaxNeurons + MaxNeuronWorkGroupSize - 2)

WorkGroupIds == 0..(MaxNeurons - 1)

KernNext ==
    \/ \E tid \in ThreadIds : ZeroSpkEvntCount(tid)
    \/ \E tid \in ThreadIds : ZeroSpkCount(tid)
    \/ \E tid \in ThreadIds : EmitSpikeEvnt(tid)
    \/ \E tid \in ThreadIds : EmitSpike(tid)
    \/ \E tid \in ThreadIds : ReserveSpkEvnt(tid)
    \/ \E tid \in ThreadIds : ReserveSpk(tid)
    \/ \E tid \in ThreadIds : CopySpkEvnt(tid)
    \/ \E tid \in ThreadIds : CopySpk(tid)
    \/ \E tid \in ThreadIds : WriteSpikeTime(tid)
    \/ \E w \in WorkGroupIds : Barrier(w)

KernelDone == \A tid \in Threads : pc[tid] = Len(Program(arch)) + 1

(***************************************************************************)
(* Properties of updateNeuronsKernel                                        *)
(***************************************************************************)
SpikedSet == {tid \in Threads : spiked[tid]}

EventedSet == {tid \in Threads : evented[tid]}

\* cnt entries from base on hold every id of ids exactly once
Compacted(buf, base, cnt, ids) ==
    /\ cnt = Cardinality(ids)
    /\ \A i \in 0..(cnt - 1) : base + i \in DOMAIN buf
    /\ \A id \in ids : Cardinality({i \in 0..(cnt - 1) : buf[base + i] = id}) = 1

\* the ranges [pos, pos + count) of the workgroups that reserved one are disjoint
RangesDisjoint(pos, count) ==
    \A v, w \in WorkGroups :
        (v # w /\ count[v] > 0 /\ count[w] > 0 /\ pos[v] # -1 /\ pos[w] # -1)
            => (pos[v] + count[v] <= pos[w] \/ pos[w] + count[w] <= pos[v])

\* C7: when the kernel has finished, for each spike type the group emits,
\* spkCnt of the written slot is the number of neurons that emitted, the
\* first spkCnt entries of the slot's buffer hold each emitting neuron's id
\* exactly once, and the ranges reserved by different workgroups are disjoint.
C7_SpikeCompaction ==
    KernelDone =>
        /\ arch.thresholdCode =>
            /\ Compacted(spk, QueueOffsetTrueSpk(arch), spkCnt[SpkCntSlot(arch)], SpikedSet)
            /\ RangesDisjoint(shPosSpk, shSpkCount)
        /\ arch.spikeEvent =>
            /\ Compacted(spkEvnt, QueueOffset(arch), spkCntEvnt[SpkCntEvntSlot(arch)], EventedSet)
            /\ RangesDisjoint(shPosSpkEvnt, shSpkEvntCount)

\* the same statement for groups that do not require spike times
C7_SpikeCompactionNoSpikeTime == ~arch.spikeTime => C7_SpikeCompaction

\* C8: when the group requires spike times and the kernel has finished, the
\* spike-time array holds t at the element of every neuron that spiked (at
\* the write delay slot when delayed) and every entry written into the
\* global spike buffer is a neuron id.
C8_SpikeTimeWritten ==
    (KernelDone /\ arch.thresholdCode /\ arch.spikeTime) =>
        /\ \A n \in SpikedSet : sT[QueueOffset(arch) + n] = t
        /\ \A i \in DOMAIN spk : spk[i] = -1 \/ spk[i] \in 0..(numNeurons - 1)

\* the instructions and the barrier site of each spike type, with the local
\* id of its designated thread
TrueSpikes == [emit |-> "emitSpk", res |-> "resSpk", copy |-> "copySpk",
               site |-> "Spk", designated |-> 0]

SpikeEvents == [emit |-> "emitEvnt", res |-> "resEvnt", copy |-> "copyEvnt",
                site |-> "Evnt", designated |-> 1]

EmittedTypes(a) ==
    (IF a.thresholdCode THEN {TrueSpikes} ELSE {})
    \cup (IF a.spikeEvent THEN {SpikeEvents} ELSE {})

Idx(prog, op) == CHOOSE k \in 1..Len(prog) : prog[k].op = op

ProtocolBarriers(prog, S) ==
    {k \in 1..Len(prog) : prog[k].op = "barrier" /\ prog[k].site \in {"staged", S.site}}

SameGroup(tid, u) == GroupId(tid) = GroupId(u)

\* C9: for each spike type the group emits, the kernel has exactly two
\* barriers at the two sites of that type's compaction (after staging, after
\* the type's reservation): the first lies between the staging writes and the
\* reservation, the second between the reservation and the copy; a
\* designated thread reserves only after every thread of its workgroup has
\* staged, a thread copies only after the designated thread has reserved, and
\* a workgroup that has finished has passed each of the two exactly once.
C9_TwoBarriersPerSpikeType ==
    \A S \in EmittedTypes(arch) :
        LET prog == Program(arch)
            bs == ProtocolBarriers(prog, S)
        IN  /\ Cardinality(bs) = 2
            /\ \E a, b \in bs :
                /\ Idx(prog, S.emit) < a /\ a < Idx(prog, S.res)
                /\ Idx(prog, S.res) < b /\ b < Idx(prog, S.copy)
                /\ \A tid, u \in Threads :
                    (SameGroup(tid, u) /\ LocalId(tid) = S.designated
                        /\ pc[tid] > Idx(prog, S.res) /\ ~undefined)
                            => pc[u] > a
                /\ \A tid, u \in Threads :
                    (SameGroup(tid, u) /\ LocalId(tid) = S.designated
                        /\ pc[u] > b)
                            => pc[tid] > Idx(prog, S.res)
            /\ \A w \in WorkGroups :
                (\A tid \in Threads : GroupId(tid) = w => pc[tid] = Len(prog) + 1)
                    => Len(SelectSeq(passed[w], LAMBDA x : x \in {"staged", S.site})) = 2

\* a workgroup of two threads staged a true spike and a spike-like event and
\* finished the kernel through all four barriers
C9_Witness ==
    /\ KernelDone
    /\ arch.thresholdCode /\ arch.spikeEvent
    /\ wgSize = 2
    /\ SpikedSet # {} /\ EventedSet # {}
    /\ passed[0] = <<"init", "staged", "Evnt", "Spk">>

\* C28: for every workgroup size, 1 included, the counter shSpkEvntCount of a
\* workgroup has been set to zero when its threads go on from the first
\* barrier to stage spike-like events, and when the kernel has finished every
\* staged event is in the global event buffer, spkCntEvnt having grown by
\* the number of staged events.
C28_EventCounterZeroedAndCopied ==
    arch.spikeEvent =>
        /\ \A w \in WorkGroups : passed[w] # <<>> => shSpkEvntCount[w] # -1
        /\ KernelDone =>
              Compacted(spkEvnt, QueueOffset(arch), spkCntEvnt[SpkCntEvntSlot(arch)], EventedSet)

\* the same statement for workgroups of at least two threads, which have a
\* thread with local id 1
C28_ZeroedAndCopiedWithLocalIdOne == wgSize > 1 => C28_EventCounterZeroedAndCopied

(***************************************************************************)
(* preNeuronResetKernel and the emitted updateNeurons(t).  The host         *)
(* enqueues kernels on one in-order command queue; the device runs the      *)
(* oldest kernel, a reset kernel thread by thread in any order.             *)
(***************************************************************************)
SpikeQueueGroup == [size : 1..MaxMembers, delay : BOOLEAN, numDelaySlots : 1..NumDelaySlots]

RECURSIVE SeqsUpTo(_, _)
SeqsUpTo(S, n) ==
    IF n = 0 THEN {<<>>}
    ELSE SeqsUpTo(S, n - 1) \cup {Append(q, x) : q \in SeqsUpTo(S, n - 1), x \in S}

\* the members <<merged index, position>> of the merged groups
Members(groups) ==
    {mem \in (DOMAIN groups) \X (0..(MaxMembers - 1)) : mem[2] < groups[mem[1]].size}

\* idPreNeuronReset before merged group g is emitted
RECURSIVE IdPreNeuronResetAt(_, _)
IdPreNeuronResetAt(groups, g) ==
    IF g = 1 THEN 0 ELSE IdPreNeuronResetAt(groups, g - 1) + groups[g - 1].size

\* idPreNeuronReset after the loop over the merged groups
IdPreNeuronReset(groups) == IdPreNeuronResetAt(groups, Len(groups) + 1)

AdvanceSpkQuePtrNoWrap(p, numDelaySlots) == p + 1

\* *group->spkQuePtr = (*group->spkQuePtr + 1) % numDelaySlots;
AdvanceSpkQuePtr(p, numDelaySlots) == (p + 1) % numDelaySlots

\* what thread id of preNeuronResetKernel does to the pointer of a member
ResetMember(groups, id, mem, p) ==
    LET g == mem[1]
        start == IdPreNeuronResetAt(groups, g)
    IN  IF id >= start /\ id < start + groups[g].size /\ id - start = mem[2]
           /\ groups[g].delay
        THEN AdvanceSpkQuePtr(p, groups[g].numDelaySlots)
        ELSE p

ResetKernel(call) == [kernel |-> "preNeuronResetKernel", call |-> call]

UpdateKernel(call) == [kernel |-> "updateNeuronsKernel", call |-> call]

\* the body of updateNeurons(t): the kernels one call enqueues, in order
UpdateNeuronsEnqueues(groups, updateThreads, call) ==
    (IF IdPreNeuronReset(groups) > 0 THEN <<ResetKernel(call)>> ELSE <<>>)
    \o (IF updateThreads > 0 THEN <<UpdateKernel(call)>> ELSE <<>>)

UpdateNeurons ==
    /\ calls < MaxCalls
    /\ calls' = calls + 1
    /\ commandQueue' = commandQueue
            \o UpdateNeuronsEnqueues(spikeQueueGroups, updateIdStart, calls + 1)
    /\ enqueued' = enqueued
            \o UpdateNeuronsEnqueues(spikeQueueGroups, updateIdStart, calls + 1)
    /\ UNCHANGED <<spikeQueueGroups, resetWorkGroupSize, updateIdStart, groupSpkQuePtr,
                   initialSpkQuePtr, threadsDone, resetsDone, updateSaw>>
    /\ UNCHANGED resetOthers

Running(kernel) == commandQueue # <<>> /\ commandQueue[1].kernel = kernel

ResetThreads ==
    0..(GlobalWorkSize(IdPreNeuronReset(spikeQueueGroups), resetWorkGroupSize) - 1)

\* one thread of preNeuronResetKernel
ResetThread(id) ==
    /\ Running("preNeuronResetKernel")
    /\ id \in ResetThreads \ threadsDone
    /\ groupSpkQuePtr' = [mem \in Members(spikeQueueGroups) |->
                            ResetMember(spikeQueueGroups, id, mem, groupSpkQuePtr[mem])]
    /\ threadsDone' = threadsDone \cup {id}
    /\ UNCHANGED <<spikeQueueGroups, resetWorkGroupSize, updateIdStart, initialSpkQuePtr,
                   calls, commandQueue, enqueued, resetsDone, updateSaw>>
    /\ UNCHANGED resetOthers

\* the reset kernel finishes when all its threads have
ResetKernelEnd ==
    /\ Running("preNeuronResetKernel")
    /\ threadsDone = ResetThreads
    /\ commandQueue' = Tail(commandQueue)
    /\ threadsDone' = {}
    /\ resetsDone' = resetsDone + 1
    /\ UNCHANGED <<spikeQueueGroups, resetWorkGroupSize, updateIdStart, groupSpkQuePtr,
                   initialSpkQuePtr, calls, enqueued, updateSaw>>
    /\ UNCHANGED resetOthers

\* updateNeuronsKernel reads *group->spkQuePtr of every member
UpdateKernelRun ==
    /\ Running("updateNeuronsKernel")
    /\ updateSaw' = Append(updateSaw, [call |-> commandQueue[1].call,
                                       spkQuePtr |-> groupSpkQuePtr])
    /\ commandQueue' = Tail(commandQueue)
    /\ UNCHANGED <<spikeQueueGroups, resetWorkGroupSize, updateIdStart, groupSpkQuePtr,
                   initialSpkQuePtr, calls, enqueued, threadsDone, resetsDone>>
    /\ UNCHANGED resetOthers

ResetInit ==
    /\ spikeQueueGroups \in SeqsUpTo(SpikeQueueGroup, MaxSpikeQueueGroups)
    /\ resetWorkGroupSize \in 1..MaxWorkGroupSize
    /\ updateIdStart \in (IF spikeQueueGroups = <<>> THEN {0} ELSE 1..MaxThreads)
    /\ groupSpkQuePtr \in [Members(spikeQueueGroups) -> 0..(NumDelaySlots - 1)]
    /\ \A mem \in Members(spikeQueueGroups) :
            groupSpkQuePtr[mem] < spikeQueueGroups[mem[1]].numDelaySlots
    /\ initialSpkQuePtr = groupSpkQuePtr
    /\ calls = 0
    /\ commandQueue = <<>>
    /\ enqueued = <<>>
    /\ threadsDone = {}
    /\ resetsDone = 0
    /\ updateSaw = <<>>

ResetIdle ==
    /\ spikeQueueGroups = <<>>
    /\ resetWorkGroupSize = 1
    /\ updateIdStart = 0
    /\ groupSpkQuePtr = <<>>
    /\ initialSpkQuePtr = <<>>
    /\ calls = MaxCalls
    /\ commandQueue = <<>>
    /\ enqueued = <<>>
    /\ threadsDone = {}
    /\ resetsDone = 0
    /\ updateSaw = <<>>

\* thread ids of the largest reset launch
ResetThreadIds == 0..(MaxSpikeQueueGroups * MaxMembers + MaxWorkGroupSize - 2)

ResetNext ==
    \/ UpdateNeurons
    \/ \E id \in ResetThreadIds : ResetThread(id)
    \/ ResetKernelEnd
    \/ UpdateKernelRun

(***************************************************************************)
(* Properties of preNeuronResetKernel and updateNeurons                     *)
(***************************************************************************)
\* the pointer of a member after k advances from its initial value
SpkQuePtrAfter(mem, k) ==
    IF spikeQueueGroups[mem[1]].delay
    THEN (initialSpkQuePtr[mem] + k) % spikeQueueGroups[mem[1]].numDelaySlots
    ELSE initialSpkQuePtr[mem]

\* the thread of preNeuronResetKernel that owns a member
ThreadOf(mem) == IdPreNeuronResetAt(spikeQueueGroups, mem[1]) + mem[2]

\* C10: every updateNeuronsKernel on the command queue was enqueued right
\* after the preNeuronResetKernel of the same call; the update kernel of call
\* k reads pointers advanced exactly k times; each member of a group whose
\* archetype requires delay has been advanced once per completed reset
\* kernel (and once more if its thread of the running one has finished), to
\* (spkQuePtr + 1) mod numDelaySlots, so the pointer stays in [0, N) and is
\* back at its initial value whenever N reset kernels have completed.
C10_ResetBeforeUpdateAndPtrAdvancedOnce ==
    /\ \A i \in DOMAIN enqueued :
        enqueued[i].kernel = "updateNeuronsKernel"
            => (i > 1 /\ enqueued[i - 1] = ResetKernel(enqueued[i].call))
    /\ \A i \in DOMAIN updateSaw :
        \A mem \in Members(spikeQueueGroups) :
            updateSaw[i].spkQuePtr[mem] = SpkQuePtrAfter(mem, updateSaw[i].call)
    /\ \A mem \in Members(spikeQueueGroups) :
        LET N == spikeQueueGroups[mem[1]].numDelaySlots
            advances == resetsDone + (IF ThreadOf(mem) \in threadsDone THEN 1 ELSE 0)
        IN  /\ groupSpkQuePtr[mem] = SpkQuePtrAfter(mem, advances)
            /\ groupSpkQuePtr[mem] \in 0..(N - 1)
            /\ (advances % N = 0) => groupSpkQuePtr[mem] = initialSpkQuePtr[mem]

\* two calls have run to the end for a merged group of two delayed members
\* with two delay slots: both pointers are back at their initial value
C10_Witness ==
    /\ Len(spikeQueueGroups) = 2
    /\ spikeQueueGroups[2] = [size |-> 2, delay |-> TRUE, numDelaySlots |-> 2]
    /\ resetsDone = 2
    /\ Len(updateSaw) = 2
    /\ commandQueue = <<>>
    /\ groupSpkQuePtr = initialSpkQuePtr
    /\ updateSaw[1].spkQuePtr # initialSpkQuePtr

(***************************************************************************)
(* updatePresynapticKernel: the write-back of accumulated input into        *)
(* group->inSyn after the strategy's inner loop, for every synapse group of *)
(* the launch.  Each thread has accumulated the value 1.                    *)
(***************************************************************************)
\* register: shouldAccumulateInRegister; shared: shouldAccumulateInSharedMemory;
\* none: the strategy accumulates by itself and the dispatcher writes nothing
AccumulationPaths == {"register", "shared", "none"}

PsGroup == [numTrgNeurons : 1..MaxTrgNeurons, path : AccumulationPaths,
            psModelMerged : BOOLEAN, inSynArray : 1..MaxPsGroups]

\* the shared-memory path is taken only when the target neurons fit in one
\* workgroup; synapse groups share an inSyn array only when their
\* postsynaptic models are merged (then they have the same target population)
PsGroupsValid(groups, workGroupSize) ==
    /\ \A g \in DOMAIN groups :
        /\ groups[g].path = "shared" => groups[g].numTrgNeurons <= workGroupSize
        /\ groups[g].inSynArray <= g
    /\ \A g, h \in DOMAIN groups :
        (g # h /\ groups[g].inSynArray = groups[h].inSynArray)
            => /\ groups[g].psModelMerged /\ groups[h].psModelMerged
               /\ groups[g].numTrgNeurons = groups[h].numTrgNeurons

\* getNumPresynapticUpdateThreads for a strategy that spans the target neurons
NumPresynapticUpdateThreads(sg) == sg.numTrgNeurons

\* idPresynapticStart before group g is dispatched
RECURSIVE PsIdStart(_, _, _)
PsIdStart(groups, workGroupSize, g) ==
    IF g = 1 THEN 0
    ELSE PsIdStart(groups, workGroupSize, g - 1)
            + PadSize(NumPresynapticUpdateThreads(groups[g - 1]), workGroupSize)

PsThreads == 0..(PsIdStart(psGroups, psWorkGroupSize, Len(psGroups) + 1) - 1)

\* the group whose id range holds thread tid
PsGroupOf(tid) ==
    CHOOSE g \in DOMAIN psGroups :
        /\ tid >= PsIdStart(psGroups, psWorkGroupSize, g)
        /\ tid < PsIdStart(psGroups, psWorkGroupSize, g + 1)

PsLid(tid) == tid - PsIdStart(psGroups, psWorkGroupSize, PsGroupOf(tid))

PsLocalId(tid) == tid % psWorkGroupSize

\* the element of group->inSyn the thread writes back to: inSyn[lid] behind
\* if (lid < numTrgNeurons) on the register path, inSyn[localId] behind
\* if (localId < numTrgNeurons) on the shared-memory path; -1 for none
InSynElement(tid) ==
    LET sg == psGroups[PsGroupOf(tid)]
    IN  CASE sg.path = "register" /\ PsLid(tid) < sg.numTrgNeurons -> PsLid(tid)
          [] sg.path = "shared" /\ PsLocalId(tid) < sg.numTrgNeurons -> PsLocalId(tid)
          [] OTHER -> -1

WriteBackIsAtomicNever(sg) == FALSE

\* if(sg.getArchetype().isPSModelMerged()) atomic add, else +=
WriteBackIsAtomic(sg) == sg.psModelMerged

PsAt(tid, position) == tid \in PsThreads /\ psPc[tid] = position

\* getFloatAtomicAdd(&inSyn, value): read and write in one step
AtomicAddInSyn(tid) ==
    /\ PsAt(tid, "writeBack")
    /\ WriteBackIsAtomic(psGroups[PsGroupOf(tid)])
    /\ LET a == psGroups[PsGroupOf(tid)].inSynArray
           e == InSynElement(tid)
       IN  inSyn' = [inSyn EXCEPT ![a][e] = @ + 1]
    /\ psPc' = [psPc EXCEPT ![tid] = "done"]
    /\ psAtomic' = [psAtomic EXCEPT ![tid] = TRUE]
    /\ UNCHANGED <<psGroups, psWorkGroupSize, psReg>>
    /\ UNCHANGED psOthers

\* inSyn += value: the read
PlainAddLoad(tid) ==
    /\ PsAt(tid, "writeBack")
    /\ ~WriteBackIsAtomic(psGroups[PsGroupOf(tid)])
    /\ psReg' = [psReg EXCEPT ![tid] =
                    inSyn[psGroups[PsGroupOf(tid)].inSynArray][InSynElement(tid)]]
    /\ psPc' = [psPc EXCEPT ![tid] = "loaded"]
    /\ UNCHANGED <<psGroups, psWorkGroupSize, psAtomic, inSyn>>
    /\ UNCHANGED psOthers

\* inSyn += value: the write
PlainAddStore(tid) ==
    /\ PsAt(tid, "loaded")
    /\ LET a == psGroups[PsGroupOf(tid)].inSynArray
           e == InSynElement(tid)
       IN  inSyn' = [inSyn EXCEPT ![a][e] = psReg[tid] + 1]
    /\ psPc' = [psPc EXCEPT ![tid] = "done"]
    /\ UNCHANGED <<psGroups, psWorkGroupSize, psReg, psAtomic>>
    /\ UNCHANGED psOthers

\* threads outside the guard of the write-back have nothing to do
PsInit ==
    /\ psWorkGroupSize \in 1..MaxWorkGroupSize
    /\ psGroups \in {gs \in SeqsUpTo(PsGroup, MaxPsGroups) :
                        gs # <<>> /\ PsGroupsValid(gs, psWorkGroupSize)}
    /\ psPc = [tid \in PsThreads |->
                IF InSynElement(tid) = -1 THEN "done" ELSE "writeBack"]
    /\ psReg = [tid \in PsThreads |-> 0]
    /\ psAtomic = [tid \in PsThreads |-> FALSE]
    /\ inSyn = [a \in 1..MaxPsGroups |-> [e \in 0..(MaxTrgNeurons - 1) |-> 0]]

PsIdle ==
    /\ psWorkGroupSize = 1
    /\ psGroups = <<>>
    /\ psPc = <<>>
    /\ psReg = <<>>
    /\ psAtomic = <<>>
    /\ inSyn = <<>>

\* thread ids of the largest launch
PsThreadIds == 0..(MaxPsGroups * (MaxTrgNeurons + MaxWorkGroupSize - 1) - 1)

PsNext ==
    \/ \E tid \in PsThreadIds : AtomicAddInSyn(tid)
    \/ \E tid \in PsThreadIds : PlainAddLoad(tid)
    \/ \E tid \in PsThreadIds : PlainAddStore(tid)

(***************************************************************************)
(* Properties of the write-back                                             *)
(***************************************************************************)
PsWriters == {tid \in PsThreads : InSynElement(tid) # -1}

PsTarget(tid) == <<psGroups[PsGroupOf(tid)].inSynArray, InSynElement(tid)>>

\* C11: a thread's write-back is atomic exactly when the archetype's
\* postsynaptic model is merged, on the register path and on the
\* shared-memory path; two threads that write back with a plain += never
\* target the same inSyn element; so when all threads have finished every
\* inSyn element holds one contribution per thread that targets it.
C11_AtomicWhenShared ==
    /\ \A tid \in PsWriters :
        psPc[tid] = "done" => (psAtomic[tid] <=> psGroups[PsGroupOf(tid)].psModelMerged)
    /\ \A tid, u \in PsWriters :
        (tid # u /\ PsTarget(tid) = PsTarget(u))
            => /\ psGroups[PsGroupOf(tid)].psModelMerged
               /\ psGroups[PsGroupOf(u)].psModelMerged
    /\ (\A tid \in PsThreads : psPc[tid] = "done")
        => \A a \in 1..MaxPsGroups : \A e \in 0..(MaxTrgNeurons - 1) :
            inSyn[a][e] = Cardinality({tid \in PsWriters : PsTarget(tid) = <<a, e>>})

\* two merged-postsynaptic-model groups on the two paths have added
\* atomically to the same inSyn element
C11_Witness ==
    /\ Len(psGroups) = 2
    /\ psGroups[1].path = "register" /\ psGroups[2].path = "shared"
    /\ psGroups[1].inSynArray = psGroups[2].inSynArray
    /\ \A tid \in PsThreads : psPc[tid] = "done"
    /\ inSyn[1][0] = 2

\* a group with its own postsynaptic model has written back with plain +=
C11_WitnessPlain ==
    /\ \E tid \in PsWriters : psPc[tid] = "done" /\ ~psAtomic[tid]
    /\ \A tid \in PsThreads : psPc[tid] = "done"

(***************************************************************************)
(* buildSynapseUpdateProgram and the emitted updateSynapses(t), from        *)
(* Backend::genSynapseUpdate.  One call of updateSynapses is one timestep.  *)
(* The synapse-dynamics kernel and its launch are commented out in the      *)
(* source, so nothing here creates, enqueues or runs it.                    *)
(***************************************************************************)
SynapseKernels == {"preSynapseResetKernel", "updatePresynapticKernel",
                   "updatePostsynapticKernel", "updateSynapseDynamicsKernel"}

\* if(id... > 0) kernel = cl::Kernel(...), for the three kernels in turn
ConfiguredBy(idReset, idPre, idPost) ==
    (IF idReset > 0 THEN {"preSynapseResetKernel"} ELSE {})
    \cup (IF idPre > 0 THEN {"updatePresynapticKernel"} ELSE {})
    \cup (IF idPost > 0 THEN {"updatePostsynapticKernel"} ELSE {})

\* the body of updateSynapses(t): the kernels one call enqueues, in order
UpdateSynapsesEnqueues(idReset, idPre, idPost) ==
    (IF idReset > 0 THEN <<"preSynapseResetKernel">> ELSE <<>>)
    \o (IF idPre > 0 THEN <<"updatePresynapticKernel">> ELSE <<>>)
    \o (IF idPost > 0 THEN <<"updatePostsynapticKernel">> ELSE <<>>)

BuildSynapseUpdateProgram ==
    /\ ~synBuilt
    /\ synBuilt' = TRUE
    /\ configuredKernels' =
            ConfiguredBy(idPreSynapseReset, idPresynapticStart, idPostsynapticStart)
    /\ UNCHANGED <<idPreSynapseReset, idPresynapticStart, idPostsynapticStart,
                   numSynapseDynamicsGroups, synCalls, synQueue, synEnqueued,
                   synExecuted, synX>>
    /\ UNCHANGED synOthers

UpdateSynapses ==
    /\ synBuilt
    /\ synCalls < MaxSynapseSteps
    /\ synCalls' = synCalls + 1
    /\ LET ks == UpdateSynapsesEnqueues(idPreSynapseReset, idPresynapticStart,
                                        idPostsynapticStart)
       IN  /\ synQueue' = synQueue \o ks
           /\ synEnqueued' = Append(synEnqueued, ks)
    /\ UNCHANGED <<idPreSynapseReset, idPresynapticStart, idPostsynapticStart,
                   numSynapseDynamicsGroups, configuredKernels, synBuilt,
                   synExecuted, synX>>
    /\ UNCHANGED synOthers

\* the device runs the oldest kernel of the in-order queue; none of the three
\* kernels assigns the synapse variable
RunSynapseKernel ==
    /\ synQueue # <<>>
    /\ synExecuted' = Append(synExecuted, Head(synQueue))
    /\ synQueue' = Tail(synQueue)
    /\ UNCHANGED <<idPreSynapseReset, idPresynapticStart, idPostsynapticStart,
                   numSynapseDynamicsGroups, configuredKernels, synBuilt, synCalls,
                   synEnqueued, synX>>
    /\ UNCHANGED synOthers

\* thread counts and group counts as the generator computed them
SynInit ==
    /\ idPreSynapseReset \in 0..MaxThreads
    /\ idPresynapticStart \in 0..MaxThreads
    /\ idPostsynapticStart \in 0..MaxThreads
    /\ numSynapseDynamicsGroups \in 0..MaxSynapseDynamicsGroups
    /\ configuredKernels = {}
    /\ synBuilt = FALSE
    /\ synCalls = 0
    /\ synQueue = <<>>
    /\ synEnqueued = <<>>
    /\ synExecuted = <<>>
    /\ synX = [d \in 0..MaxDelaySteps |-> -1]

SynIdle ==
    /\ idPreSynapseReset = 0
    /\ idPresynapticStart = 0
    /\ idPostsynapticStart = 0
    /\ numSynapseDynamicsGroups = 0
    /\ configuredKernels = {}
    /\ synBuilt = FALSE
    /\ synCalls = 0
    /\ synQueue = <<>>
    /\ synEnqueued = <<>>
    /\ synExecuted = <<>>
    /\ synX = <<>>

SynNext ==
    \/ BuildSynapseUpdateProgram
    \/ UpdateSynapses
    \/ RunSynapseKernel

(***************************************************************************)
(* Properties of updateSynapses                                             *)
(***************************************************************************)
\* the kernels the specification has one call enqueue, in order
SpecifiedEnqueues ==
    UpdateSynapsesEnqueues(idPreSynapseReset, idPresynapticStart, idPostsynapticStart)
    \o (IF numSynapseDynamicsGroups > 0 THEN <<"updateSynapseDynamicsKernel">> ELSE <<>>)

\* C12: every call of updateSynapses enqueues, in this order, the
\* pre-synapse-reset kernel (when dendritic-delay groups exist), the
\* presynaptic update kernel, the postsynaptic update kernel and then the
\* synapse-dynamics kernel when merged synapse-dynamics groups exist, and
\* every kernel it enqueues was configured by buildSynapseUpdateProgram.
C12_UpdateSynapsesOrder ==
    \A c \in DOMAIN synEnqueued :
        /\ synEnqueued[c] = SpecifiedEnqueues
        /\ \A i \in DOMAIN synEnqueued[c] : synEnqueued[c][i] \in configuredKernels

\* the same statement for models without synapse-dynamics groups
C12_OrderWithoutSynapseDynamics ==
    numSynapseDynamicsGroups = 0 => C12_UpdateSynapsesOrder

\* the value of the presynaptic variable produced at a timestep
PreValue(step) == step

\* C13: with synapse-dynamics groups, once the kernels of a timestep have
\* run, the synapse-dynamics kernel has run once per timestep, and for every
\* axonal delay d and every timestep later than d+1 the synapse variable
\* equals the presynaptic value produced d+1 timesteps earlier.
C13_SynapseDynamicsReadsDelayedSlot ==
    (numSynapseDynamicsGroups > 0 /\ synCalls > 0 /\ synQueue = <<>>) =>
        /\ Len(SelectSeq(synExecuted, LAMBDA k : k = "updateSynapseDynamicsKernel"))
                = synCalls
        /\ \A d \in 0..MaxDelaySteps :
            synCalls > d + 1 => synX[d] = PreValue(synCalls - (d + 1))

(***************************************************************************)
(* Kernel argument setup: genMergedGroupKernelParams writes the kernel      *)
(* signature, setMergedGroupKernelParams the setArg calls of the build      *)
(* routine, and the launch sets the trailing scalar.                        *)
(***************************************************************************)
NoScalar == "none"

\* per kernel: the merged-struct lists of its signature, in order, and its
\* trailing scalar parameter
KernelParams ==
    [preNeuronResetKernel |->
        [lists |-> <<"NeuronSpikeQueueUpdate">>, scalar |-> NoScalar],
     updateNeuronsKernel |->
        [lists |-> <<"NeuronUpdate">>, scalar |-> "t"],
     preSynapseResetKernel |->
        [lists |-> <<"SynapseDendriticDelayUpdate">>, scalar |-> NoScalar],
     updatePresynapticKernel |->
        [lists |-> <<"PresynapticUpdate">>, scalar |-> "t"],
     updatePostsynapticKernel |->
        [lists |-> <<"PostsynapticUpdate">>, scalar |-> "t"],
     initializeKernel |->
        [lists |-> <<"NeuronInit", "SynapseDenseInit", "SynapseConnectivityInit">>,
         scalar |-> "deviceRNGSeed"],
     initializeSparseKernel |->
        [lists |-> <<"SynapseSparseInit">>, scalar |-> NoScalar]]

ArgKernels == DOMAIN KernelParams

\* the d_merged<name>Group<i> buffer
MergedGroupArg(name, i) == <<name, i>>

\* the host variable t or deviceRNGSeed
ScalarArg(name) == <<name>>

\* an argument index no setArg has been called for
UnsetArg == <<>>

RECURSIVE GroupParams(_, _)
\* genMergedGroupKernelParams for one list: parameters i = 0 .. size-1
GroupParams(name, size) ==
    IF size = 0 THEN <<>>
    ELSE Append(GroupParams(name, size - 1), MergedGroupArg(name, size - 1))

RECURSIVE SignatureOfLists(_, _)
SignatureOfLists(lists, sizes) ==
    IF lists = <<>> THEN <<>>
    ELSE GroupParams(Head(lists), Head(sizes))
         \o SignatureOfLists(Tail(lists), Tail(sizes))

\* the parameter list of the emitted __kernel void
KernelSignature(kernel, sizes) ==
    SignatureOfLists(KernelParams[kernel].lists, sizes)
    \o (IF KernelParams[kernel].scalar = NoScalar THEN <<>>
        ELSE <<ScalarArg(KernelParams[kernel].scalar)>>)

RECURSIVE SumSeq(_)
SumSeq(s) == IF s = <<>> THEN 0 ELSE Head(s) + SumSeq(Tail(s))

\* first list at or after position l that has a group left to set
NextList(l, sizes) ==
    IF \E m \in l..Len(sizes) : sizes[m] > 0
    THEN CHOOSE m \in l..Len(sizes) :
            sizes[m] > 0 /\ \A n \in l..(m - 1) : sizes[n] = 0
    ELSE Len(sizes) + 1

\* one iteration of the loop of setMergedGroupKernelParams: setArg(i, ...)
SetMergedGroupArg ==
    /\ argPhase = "groups"
    /\ LET name == KernelParams[argKernel].lists[argList]
           fin  == argI + 1 = argSizes[argList]
           nl   == NextList(argList + 1, argSizes)
       IN  /\ clArgs' = [clArgs EXCEPT ![argI] = MergedGroupArg(name, argI)]
           /\ argSets' = [argSets EXCEPT ![argI] = @ + 1]
           /\ argI' = IF fin THEN 0 ELSE argI + 1
           /\ argList' = IF fin THEN nl ELSE argList
           /\ argPhase' = IF fin /\ nl > Len(argSizes) THEN "scalar" ELSE "groups"
    /\ UNCHANGED <<argKernel, argSizes>>
    /\ UNCHANGED argOthers

\* the launch: setArg(<number of merged groups>, t or deviceRNGSeed)
SetScalarArg ==
    /\ argPhase = "scalar"
    /\ KernelParams[argKernel].scalar # NoScalar
    /\ LET k == SumSeq(argSizes)
       IN  /\ clArgs' = [clArgs EXCEPT ![k] = ScalarArg(KernelParams[argKernel].scalar)]
           /\ argSets' = [argSets EXCEPT ![k] = @ + 1]
    /\ argPhase' = "done"
    /\ UNCHANGED <<argKernel, argSizes, argList, argI>>
    /\ UNCHANGED argOthers

\* the launch of a kernel without a trailing scalar
EnqueueWithoutScalar ==
    /\ argPhase = "scalar"
    /\ KernelParams[argKernel].scalar = NoScalar
    /\ argPhase' = "done"
    /\ UNCHANGED <<argKernel, argSizes, argList, argI, clArgs, argSets>>
    /\ UNCHANGED argOthers

\* a kernel is configured only when it has threads, so at least one group
ArgInit ==
    /\ argKernel \in ArgKernels
    /\ argSizes \in [1..Len(KernelParams[argKernel].lists) -> 0..MaxArgGroups]
    /\ SumSeq(argSizes) > 0
    /\ argList = NextList(1, argSizes)
    /\ argI = 0
    /\ clArgs = [k \in 0..SumSeq(argSizes) |-> UnsetArg]
    /\ argSets = [k \in 0..SumSeq(argSizes) |-> 0]
    /\ argPhase = "groups"

ArgIdle ==
    /\ argKernel = "initializeSparseKernel"
    /\ argSizes = <<>>
    /\ argList = 0
    /\ argI = 0
    /\ clArgs = <<>>
    /\ argSets = <<>>
    /\ argPhase = "done"

ArgNext ==
    \/ SetMergedGroupArg
    \/ SetScalarArg
    \/ EnqueueWithoutScalar

(***************************************************************************)
(* Properties of the kernel argument setup                                  *)
(***************************************************************************)
ArgsMatchSignature ==
    LET sig == KernelSignature(argKernel, argSizes)
    IN  \A k \in 0..(Len(sig) - 1) : clArgs[k] = sig[k + 1] /\ argSets[k] = 1

\* C14: once a kernel is configured and launched, every argument index has
\* been set exactly once, index k holds the merged-struct array that is the
\* k-th parameter of the kernel signature, and the trailing scalar is at the
\* index equal to the number of merged-struct parameters.
C14_ArgsMatchSignature ==
    (argPhase = "done" /\ argSizes # <<>>) => ArgsMatchSignature

\* the same statement for the kernels with a single merged-struct list
C14_SingleListArgsMatchSignature ==
    (argPhase = "done" /\ Len(argSizes) = 1) => ArgsMatchSignature

(***************************************************************************)
(* ModelSpecMerged::createMergedGroups as a function of the model, run      *)
(* twice over the same named groups added to the model in two orders.       *)
(***************************************************************************)
\* group names, ordered as std::string orders them
NamedGroups == 1..MaxNamedGroups

\* the orders in which the groups can have been added to the model
InsertionOrders ==
    {s \in SeqsUpTo(NamedGroups, MaxNamedGroups) :
        Len(s) = MaxNamedGroups /\ Range(s) = NamedGroups}

\* iteration in the order the groups were added
MapIterationInsertionOrder(order) == order

\* for(const auto &g : groups) over std::map<std::string, Group>: key order
MapIteration(order) == AscendingSeq(Range(order))

\* index of the first proto-merged group whose front canMerge accepts, 0 if none
FirstFit(protos, group, cm) ==
    LET ok == {i \in 1..Len(protos) : <<protos[i][1], group>> \in cm}
    IN IF ok = {} THEN 0 ELSE CHOOSE i \in ok : \A j \in ok : i <= j

RECURSIVE MergeAll(_, _, _)
\* while(!unmergedGroups.empty()): take the last group, first fit
MergeAll(unmerged, protos, cm) ==
    IF unmerged = <<>> THEN protos
    ELSE LET group == Last(unmerged)
             i == FirstFit(protos, group, cm)
         IN MergeAll(Front(unmerged),
                     IF i # 0 THEN [protos EXCEPT ![i] = Append(@, group)]
                     ELSE Append(protos, <<group>>),
                     cm)

\* the map overload followed by the vector overload
CreateMergedGroups(order, filt, cm) ==
    LET unmerged == SelectSeq(MapIteration(order), LAMBDA g : g \in filt)
        protos == MergeAll(unmerged, <<>>, cm)
    IN [i \in 1..Len(protos) |-> [index |-> i - 1, groups |-> protos[i]]]

RunA ==
    /\ detPc = "runA"
    /\ mergedA' = CreateMergedGroups(insertionOrderA, detFilter, detCanMerge)
    /\ detPc' = "runB"
    /\ UNCHANGED <<detFilter, detCanMerge, insertionOrderA, insertionOrderB, mergedB>>
    /\ UNCHANGED detOthers

RunB ==
    /\ detPc = "runB"
    /\ mergedB' = CreateMergedGroups(insertionOrderB, detFilter, detCanMerge)
    /\ detPc' = "done"
    /\ UNCHANGED <<detFilter, detCanMerge, insertionOrderA, insertionOrderB, mergedA>>
    /\ UNCHANGED detOthers

DetInit ==
    /\ detPc = "runA"
    /\ detFilter \in SUBSET NamedGroups
    /\ detCanMerge \in SUBSET (NamedGroups \X NamedGroups)
    /\ insertionOrderA \in InsertionOrders
    /\ insertionOrderB \in InsertionOrders
    /\ mergedA = <<>>
    /\ mergedB = <<>>

DetIdle ==
    /\ detPc = "done"
    /\ detFilter = {}
    /\ detCanMerge = {}
    /\ insertionOrderA = <<>>
    /\ insertionOrderB = <<>>
    /\ mergedA = <<>>
    /\ mergedB = <<>>

DetNext ==
    \/ RunA
    \/ RunB

LookupSites == {"startIdTable", "padding", "rowStride", "emitCode"}

NotLookedUp == "none"

\* a call site that scans the registry from its oldest entry
SiteLookupRowStrideForward(site, registry, compat, sg) ==
    IF site = "rowStride" THEN ScanForward(registry, compat, sg)
    ELSE ScanReverse(registry, compat, sg)

\* every call site goes through getPresynapticUpdateStrategy(sg)
SiteLookup(site, registry, compat, sg) == ScanReverse(registry, compat, sg)

FirstLookupDone ==
    \E sg \in SynapseGroups, site \in LookupSites : runLookups[sg][site] # NotLookedUp

\* number of call sites and synapse groups looked up so far
NumLookups ==
    Cardinality({x \in SynapseGroups \X LookupSites : runLookups[x[1]][x[2]] # NotLookedUp})

\* addPresynapticUpdateStrategy(strategy): push_back, whenever it is called
RunAddStrategy(strategy) ==
    /\ Len(runRegistry) < 2 + MaxUserStrategies
    /\ runRegistry' = Append(runRegistry, strategy)
    /\ runLateAdds' = IF FirstLookupDone THEN runLateAdds + 1 ELSE runLateAdds
    /\ UNCHANGED <<runCompatible, runLookups, runRegistryAtFirstLookup>>
    /\ UNCHANGED runOthers

\* an emitter calls getPresynapticUpdateStrategy(sg) at one of its call sites
RunLookup(site, sg) ==
    /\ NumLookups < MaxLookups
    /\ LET i == SiteLookup(site, runRegistry, runCompatible, sg)
       IN runLookups' = [runLookups EXCEPT ![sg][site] =
                            IF i = 0 THEN "throw" ELSE runRegistry[i]]
    /\ runRegistryAtFirstLookup' =
            IF FirstLookupDone THEN runRegistryAtFirstLookup ELSE runRegistry
    /\ UNCHANGED <<runRegistry, runCompatible, runLateAdds>>
    /\ UNCHANGED runOthers

RunInit ==
    /\ runRegistry = <<"PreSpan", "PostSpan">>
    /\ runCompatible \in [Strategies -> SUBSET SynapseGroups]
    /\ runLookups = [sg \in SynapseGroups |-> [site \in LookupSites |-> NotLookedUp]]
    /\ runRegistryAtFirstLookup = <<>>
    /\ runLateAdds = 0

RunIdle ==
    /\ runRegistry = <<>>
    /\ runCompatible = <<>>
    /\ runLookups = <<>>
    /\ runRegistryAtFirstLookup = <<>>
    /\ runLateAdds = 0

RunNext ==
    \/ \E strategy \in UserStrategies : RunAddStrategy(strategy)
    \/ \E site \in LookupSites, sg \in SynapseGroups : RunLookup(site, sg)

(***************************************************************************)
(* Properties of the registry over one run                                  *)
(***************************************************************************)
\* the strategies the lookups of the run returned for a synapse group
ReturnedFor(sg) ==
    {runLookups[sg][site] : site \in LookupSites} \ {NotLookedUp}

\* the registry is as the first lookup found it and every synapse group got
\* one answer at all call sites
RegistryStable ==
    /\ runRegistry = runRegistryAtFirstLookup
    /\ \A sg \in DOMAIN runLookups : Cardinality(ReturnedFor(sg)) <= 1

UserCodes == {<<"$(V)", "1.0">>, <<"$(undefinedVar)", "1.0">>}

UnreplacedTokens == {"$(V)", "$(undefinedVar)"}

\* applyNeuronModelSubstitutions, applyPostsynapticModelSubstitutions and
\* Substitutions::apply: the known names are replaced
ApplySubstitutionsTo(code) ==
    [i \in DOMAIN code |-> IF code[i] = "$(V)" THEN "lV" ELSE code[i]]

\* ensureFtype(code, "float"): literals get the suffix f
EnsureFtype(code) ==
    [i \in DOMAIN code |-> IF code[i] = "1.0" THEN "1.0f" ELSE code[i]]

\* checkUnreplacedVariables throws when a $(...) is left
HasUnreplacedVariables(code) ==
    \E i \in DOMAIN code : code[i] \in UnreplacedTokens

NeuronConfigs ==
    {c \in [numMergedInSyn : 0..MaxMergedInSyn,
            numCurrentSources : 0..MaxCurrentSources,
            thresholdCode : BOOLEAN,        \* !thCode.empty()
            autoRefractory : BOOLEAN,       \* nm->isAutoRefractoryRequired()
            spikeEvent : BOOLEAN,           \* ng.isSpikeEventRequired(), one condition
            resetCode : BOOLEAN] :          \* !nm->getResetCode().empty()
        /\ c.autoRefractory => c.thresholdCode}

RECURSIVE Repeat(_, _)
Repeat(x, n) == IF n = 0 THEN <<>> ELSE <<x>> \o Repeat(x, n - 1)

\* the user code blocks of the handler, in program order
Blocks(c) ==
    Repeat("applyInputCode", c.numMergedInSyn)
    \o Repeat("injectionCode", c.numCurrentSources)
    \o (IF c.thresholdCode THEN <<"thresholdConditionCode">> ELSE <<>>)
    \o <<"simCode">>
    \o (IF c.spikeEvent THEN <<"spikeEventCondition">> ELSE <<>>)
    \o (IF c.thresholdCode THEN <<"trueSpikeTest">> ELSE <<>>)
    \o (IF c.thresholdCode /\ c.resetCode THEN <<"resetCode">> ELSE <<>>)
    \o Repeat("decayCode", c.numMergedInSyn)

\* the steps with the check made before ensureFtype
BlockStepsCheckBeforeFtype == <<"get", "substitute", "check", "ensureFtype", "write">>

\* the steps every block goes through, in program order
BlockSteps == <<"get", "substitute", "ensureFtype", "check", "write">>

\* the true-spike test writes thCode again
Steps(kind) == IF kind = "trueSpikeTest" THEN <<"reuse", "write">> ELSE BlockSteps

NuAt(step) ==
    /\ ~nuFailed
    /\ nuBlock <= Len(Blocks(nuConfig))
    /\ Steps(Blocks(nuConfig)[nuBlock])[nuStep] = step

NuKind == Blocks(nuConfig)[nuBlock]

\* move to the next step, or to the first step of the next block
NuAdvance ==
    IF nuStep < Len(Steps(NuKind))
    THEN nuStep' = nuStep + 1 /\ nuBlock' = nuBlock
    ELSE nuStep' = 1 /\ nuBlock' = nuBlock + 1

\* std::string code = model->get...Code();
GetCode(code) ==
    /\ NuAt("get")
    /\ nuCode' = code
    /\ NuAdvance
    /\ UNCHANGED <<nuConfig, nuThCode, nuChecked, nuOs, nuFailed>>
    /\ UNCHANGED nuOthers

ApplySubstitutions ==
    /\ NuAt("substitute")
    /\ nuCode' = ApplySubstitutionsTo(nuCode)
    /\ NuAdvance
    /\ UNCHANGED <<nuConfig, nuThCode, nuChecked, nuOs, nuFailed>>
    /\ UNCHANGED nuOthers

EnsureFtypeStep ==
    /\ NuAt("ensureFtype")
    /\ nuCode' = EnsureFtype(nuCode)
    /\ NuAdvance
    /\ UNCHANGED <<nuConfig, nuThCode, nuChecked, nuOs, nuFailed>>
    /\ UNCHANGED nuOthers

\* checkUnreplacedVariables(code, ...): throws, or returns normally
CheckUnreplacedVariables ==
    /\ NuAt("check")
    /\ IF HasUnreplacedVariables(nuCode)
       THEN /\ nuFailed' = TRUE
            /\ UNCHANGED <<nuBlock, nuStep, nuChecked>>
       ELSE /\ nuChecked' = nuChecked \cup {nuCode}
            /\ NuAdvance
            /\ UNCHANGED nuFailed
    /\ UNCHANGED <<nuConfig, nuCode, nuThCode, nuOs>>
    /\ UNCHANGED nuOthers

\* if (!thCode.empty()) os << "if (" << thCode << ")"
ReuseThresholdCode ==
    /\ NuAt("reuse")
    /\ nuCode' = nuThCode
    /\ NuAdvance
    /\ UNCHANGED <<nuConfig, nuThCode, nuChecked, nuOs, nuFailed>>
    /\ UNCHANGED nuOthers

\* os << code; thCode reaches the stream here only as oldSpike
WriteCode ==
    /\ NuAt("write")
    /\ nuOs' = IF NuKind = "thresholdConditionCode" /\ ~nuConfig.autoRefractory
               THEN nuOs
               ELSE Append(nuOs, <<NuKind, nuCode>>)
    /\ nuThCode' = IF NuKind = "thresholdConditionCode" THEN nuCode ELSE nuThCode
    /\ NuAdvance
    /\ UNCHANGED <<nuConfig, nuCode, nuChecked, nuFailed>>
    /\ UNCHANGED nuOthers

NuInit ==
    /\ nuConfig \in NeuronConfigs
    /\ nuBlock = 1
    /\ nuStep = 1
    /\ nuCode = <<>>
    /\ nuThCode = <<>>
    /\ nuChecked = {}
    /\ nuOs = <<>>
    /\ nuFailed = FALSE

NuIdle ==
    /\ nuConfig = [numMergedInSyn |-> 0, numCurrentSources |-> 0,
                   thresholdCode |-> FALSE, autoRefractory |-> FALSE,
                   spikeEvent |-> FALSE, resetCode |-> FALSE]
    /\ nuBlock = 0
    /\ nuStep = 0
    /\ nuCode = <<>>
    /\ nuThCode = <<>>
    /\ nuChecked = {}
    /\ nuOs = <<>>
    /\ nuFailed = FALSE

NuNext ==
    \/ \E code \in UserCodes : GetCode(code)
    \/ ApplySubstitutions
    \/ EnsureFtypeStep
    \/ CheckUnreplacedVariables
    \/ ReuseThresholdCode
    \/ WriteCode

(***************************************************************************)
(* Properties of the user code blocks                                       *)
(***************************************************************************)
\* C17: every user code block in the stream (apply-input code, injection
\* code, threshold condition, sim code, spike-event condition, reset code,
\* decay code) was written after the substitutions were applied, and
\* checkUnreplacedVariables had returned normally for the very string that
\* was written.
C17_CheckedBeforeWritten ==
    \A k \in DOMAIN nuOs :
        /\ nuOs[k][2] \in nuChecked
        /\ ~HasUnreplacedVariables(nuOs[k][2])
        /\ nuOs[k][2] = EnsureFtype(ApplySubstitutionsTo(nuOs[k][2]))

\* a finished handler that wrote every kind of block, the threshold
\* condition twice
C17_Witness ==
    /\ ~nuFailed
    /\ nuBlock > Len(Blocks(nuConfig))
    /\ nuBlock > 1
    /\ {nuOs[k][1] : k \in DOMAIN nuOs} =
            {"applyInputCode", "injectionCode", "thresholdConditionCode", "simCode",
             "spikeEventCondition", "trueSpikeTest", "resetCode", "decayCode"}

(***************************************************************************)
(* CodeStream scopes.  An emitter is reduced to the open and close tokens   *)
(* it writes, in program order, for given values of the conditions it       *)
(* branches on; a CodeStream::Scope object is an open token at its          *)
(* construction and the matching close token at the end of its block.       *)
(***************************************************************************)
\* the host stream os and the synapseUpdateKernels stream
Streams == {"os", "synapseUpdateKernels"}

Emitters == {"neuronUpdateHandler", "postsynapticUpdateHandler",
             "preSynapseResetKernel", "genVariablePush", "genParallelGroup"}

\* os << CodeStream::OB(id)
OB(stream, id) == <<[op |-> "OB", stream |-> stream, id |-> <<"OB", id>>]>>

\* os << CodeStream::CB(id)
CB(stream, id) == <<[op |-> "CB", stream |-> stream, id |-> <<"OB", id>>]>>

\* { CodeStream::Scope b(stream); body }, the Scope at the given nesting level
Scoped(stream, level, body) ==
    <<[op |-> "OB", stream |-> stream, id |-> <<"Scope", level>>]>>
    \o body
    \o <<[op |-> "CB", stream |-> stream, id |-> <<"Scope", level>>]>>

When(cond, body) == IF cond THEN body ELSE <<>>

RECURSIVE Loop(_, _)
\* for(...) body, n iterations
Loop(n, body) == IF n = 0 THEN <<>> ELSE body \o Loop(n - 1, body)

\* the bracket of a postsynaptic model closed whether or not it was opened
SupportCodeBlockAlwaysClosed(supportCode) ==
    When(supportCode, OB("os", 29)) \o CB("os", 29)

\* if (!psm->getSupportCode().empty()) OB(29) ... code ... if (...) CB(29)
SupportCodeBlock(supportCode) ==
    When(supportCode, OB("os", 29)) \o When(supportCode, CB("os", 29))

EmitterConfigs ==
    {c \in [emitter : Emitters,
            n : 0..MaxEmitGroups,        \* iterations of the emitter's loops
            supportCode : BOOLEAN,       \* !psm->getSupportCode().empty()
            spikeEvent : BOOLEAN,        \* ng.isSpikeEventRequired()
            thresholdCode : BOOLEAN,     \* !thCode.empty()
            sparse : BOOLEAN,            \* getMatrixType() & SPARSE
            autoInitialized : BOOLEAN,
            zeroCopy : BOOLEAN] :        \* loc & VarLocation::ZERO_COPY
        /\ c.emitter # "neuronUpdateHandler" =>
                ~c.supportCode /\ ~c.spikeEvent /\ ~c.thresholdCode
        /\ c.emitter # "postsynapticUpdateHandler" => ~c.sparse
        /\ c.emitter # "genVariablePush" => ~c.autoInitialized /\ ~c.zeroCopy
        /\ c.emitter \in {"postsynapticUpdateHandler", "genVariablePush"} => c.n = 0}

\* the scope tokens of the handler of generateNeuronUpdate, for a neuron
\* group with n merged incoming synapse groups, n current sources and n
\* spike-event conditions
NeuronUpdateHandlerScopes(c) ==
    Loop(c.n, SupportCodeBlock(c.supportCode))
    \o Loop(c.n, Scoped("os", 0, <<>>))
    \o When(c.spikeEvent,
            Loop(c.n, OB("os", 31) \o CB("os", 31)) \o Scoped("os", 0, <<>>))
    \o When(c.thresholdCode, Scoped("os", 0, <<>>))
    \o Loop(c.n, SupportCodeBlock(c.supportCode))

\* the handler of the postsynaptic kernel; its os is the kernel stream
PostsynapticUpdateHandlerScopes(c) ==
    Scoped("synapseUpdateKernels", 0,
        Scoped("synapseUpdateKernels", 1, <<>>)
        \o Scoped("synapseUpdateKernels", 1,
              Scoped("synapseUpdateKernels", 2,
                  When(c.sparse, OB("synapseUpdateKernels", 1540))
                  \o When(c.sparse, CB("synapseUpdateKernels", 1540)))))

\* the kernel body on synapseUpdateKernels, the per-group Scope on os
PreSynapseResetKernelScopes(c) ==
    Scoped("synapseUpdateKernels", 0, Loop(c.n, Scoped("os", 1, <<>>)))

GenVariablePushScopes(c) ==
    When(~c.zeroCopy,
         When(c.autoInitialized, OB("os", 1101))
         \o When(c.autoInitialized, CB("os", 1101)))

\* both branches of if (idStart == 0) open OB(1); the handler runs inside
GenParallelGroupScopes(c) ==
    Loop(c.n, OB("os", 1) \o Scoped("os", 0, <<>>) \o CB("os", 1))

ScopeTokens(c) ==
    CASE c.emitter = "neuronUpdateHandler" -> NeuronUpdateHandlerScopes(c)
      [] c.emitter = "postsynapticUpdateHandler" -> PostsynapticUpdateHandlerScopes(c)
      [] c.emitter = "preSynapseResetKernel" -> PreSynapseResetKernelScopes(c)
      [] c.emitter = "genVariablePush" -> GenVariablePushScopes(c)
      [] c.emitter = "genParallelGroup" -> GenParallelGroupScopes(c)

CsAt(op) ==
    /\ ~csFailed
    /\ csPc <= Len(ScopeTokens(csConfig))
    /\ ScopeTokens(csConfig)[csPc].op = op

\* open(id): the scope is pushed
WriteOB ==
    /\ CsAt("OB")
    /\ LET tok == ScopeTokens(csConfig)[csPc]
       IN csStack' = [csStack EXCEPT ![tok.stream] = Append(@, tok.id)]
    /\ csPc' = csPc + 1
    /\ UNCHANGED <<csConfig, csFailed>>
    /\ UNCHANGED csOthers

\* close(id): must match the most recent open, fails otherwise
WriteCB ==
    /\ CsAt("CB")
    /\ LET tok == ScopeTokens(csConfig)[csPc]
           st  == csStack[tok.stream]
       IN IF st # <<>> /\ Last(st) = tok.id
          THEN /\ csStack' = [csStack EXCEPT ![tok.stream] = Front(st)]
               /\ csPc' = csPc + 1
               /\ UNCHANGED csFailed
          ELSE /\ csFailed' = TRUE
               /\ UNCHANGED <<csStack, csPc>>
    /\ UNCHANGED csConfig
    /\ UNCHANGED csOthers

CsInit ==
    /\ csConfig \in EmitterConfigs
    /\ csPc = 1
    /\ csStack = [s \in Streams |-> <<>>]
    /\ csFailed = FALSE

CsIdle ==
    /\ csConfig = [emitter |-> "genVariablePush", n |-> 0, supportCode |-> FALSE,
                   spikeEvent |-> FALSE, thresholdCode |-> FALSE, sparse |-> FALSE,
                   autoInitialized |-> FALSE, zeroCopy |-> TRUE]
    /\ csPc = 1
    /\ csStack = <<>>
    /\ csFailed = FALSE

CsNext ==
    \/ WriteOB
    \/ WriteCB

KernelChars == {"a", "b"}

\* std::string::substr(pos, n) for pos <= length: at most n characters
Substr(s, pos, n) ==
    SubSeq(s, pos + 1, IF pos + n < Len(s) THEN pos + n ELSE Len(s))

\* the number of parts rounded down
NumPartsFloor(length, len) == length \div len

\* const size_t parts = ceilDivide(kernelStr.length(), partLength);
NumParts(length, len) == CeilDivide(length, len)

\* one iteration of the loop: os << "R\"(" << substr(i * partLength, partLength) << ")\""
WritePart ==
    /\ divI < NumParts(Len(kernelStr), partLength)
    /\ divOs' = Append(divOs, Substr(kernelStr, divI * partLength, partLength))
    /\ divI' = divI + 1
    /\ UNCHANGED <<kernelStr, partLength>>
    /\ UNCHANGED divOthers

DivInit ==
    /\ kernelStr \in SeqsUpTo(KernelChars, MaxKernelChars)
    /\ partLength \in 1..MaxPartLength
    /\ divI = 0
    /\ divOs = <<>>

DivIdle ==
    /\ kernelStr = <<>>
    /\ partLength = 0
    /\ divI = 0
    /\ divOs = <<>>

DivNext ==
    \/ WritePart

(***************************************************************************)
(* Properties of divideKernelStreamInParts                                  *)
(***************************************************************************)
RECURSIVE Concat(_)
Concat(parts) == IF parts = <<>> THEN <<>> ELSE Head(parts) \o Concat(Tail(parts))

\* the loop has ended
DivideDone == partLength > 0 /\ divI >= NumParts(Len(kernelStr), partLength)

\* C19: for every string s and every part length L >= 1 the routine writes
\* ceil(|s| / L) raw-string chunks, in order, each of at most L characters,
\* and their concatenation is s.
C19_ChunksConcatenateToSource ==
    partLength > 0 =>
        /\ \A k \in DOMAIN divOs : Len(divOs[k]) <= partLength
        /\ Concat(divOs) = SubSeq(kernelStr, 1, Len(Concat(divOs)))
        /\ DivideDone =>
            /\ Len(divOs) * partLength >= Len(kernelStr)
            /\ (Len(divOs) > 0 => (Len(divOs) - 1) * partLength < Len(kernelStr))
            /\ Concat(divOs) = kernelStr

\* a finished division whose last chunk is shorter than the part length
C19_Witness ==
    /\ DivideDone
    /\ Len(divOs) >= 2
    /\ Len(Last(divOs)) < partLength

(***************************************************************************)
(* Backend::genExtraGlobalParamPush and Backend::genExtraGlobalParamPull    *)
(***************************************************************************)
\* VarLocation, as the set of its flags
VarLocations == SUBSET {"HOST", "DEVICE", "ZERO_COPY"}

EgpRoutines == {"genExtraGlobalParamPush", "genExtraGlobalParamPull"}

\* what the stream holds before the first call
EgpPreamble == <<"preamble">>

\* the test made on the DEVICE flag
ThrowsToBeImplementedWithoutDevice(loc) == "DEVICE" \notin loc

\* if (!(loc & VarLocation::ZERO_COPY)) throw Utils::ToBeImplemented(...)
ThrowsToBeImplemented(loc) == "ZERO_COPY" \notin loc

\* the exception leaves the generator, so no call follows one that threw
EgpRunning ==
    /\ Len(egpCalls) < MaxEgpCalls
    /\ (egpCalls # <<>> => Last(egpCalls).outcome = "returned")

GenExtraGlobalParamPush(loc) ==
    /\ EgpRunning
    /\ egpCalls' = Append(egpCalls,
            [routine |-> "genExtraGlobalParamPush", loc |-> loc,
             outcome |-> IF ThrowsToBeImplemented(loc) THEN "ToBeImplemented"
                         ELSE "returned"])
    /\ UNCHANGED egpOs
    /\ UNCHANGED egpOthers

GenExtraGlobalParamPull(loc) ==
    /\ EgpRunning
    /\ egpCalls' = Append(egpCalls,
            [routine |-> "genExtraGlobalParamPull", loc |-> loc,
             outcome |-> IF ThrowsToBeImplemented(loc) THEN "ToBeImplemented"
                         ELSE "returned"])
    /\ UNCHANGED egpOs
    /\ UNCHANGED egpOthers

EgpInit ==
    /\ egpOs = EgpPreamble
    /\ egpCalls = <<>>

EgpIdle ==
    /\ egpOs = <<>>
    /\ egpCalls = <<>>

EgpNext ==
    \/ \E loc \in VarLocations : GenExtraGlobalParamPush(loc)
    \/ \E loc \in VarLocations : GenExtraGlobalParamPull(loc)

(***************************************************************************)
(* Properties of the extra-global-parameter routines                        *)
(***************************************************************************)
\* C20: a call of genExtraGlobalParamPush or genExtraGlobalParamPull fails
\* with ToBeImplemented when the location lacks ZERO_COPY and returns
\* normally when it has it, and in both cases nothing is written to the
\* stream.
C20_ToBeImplementedUnlessZeroCopy ==
    egpCalls # <<>> =>
        /\ \A k \in DOMAIN egpCalls :
            /\ "ZERO_COPY" \notin egpCalls[k].loc => egpCalls[k].outcome = "ToBeImplemented"
            /\ "ZERO_COPY" \in egpCalls[k].loc => egpCalls[k].outcome = "returned"
        /\ egpOs = EgpPreamble

\* a push of a zero-copy parameter that returned, followed by a pull of a
\* device-only parameter that failed
C20_Witness ==
    /\ Len(egpCalls) = 2
    /\ egpCalls[1].routine = "genExtraGlobalParamPush"
    /\ egpCalls[1].outcome = "returned"
    /\ egpCalls[2].routine = "genExtraGlobalParamPull"
    /\ egpCalls[2].loc = {"DEVICE"}
    /\ egpCalls[2].outcome = "ToBeImplemented"

(***************************************************************************)
(* The spike-block loop of updatePostsynapticKernel for one workgroup:      *)
(*   for (r = 0; r < numSpikeBlocks; r++) {                                 *)
(*     if (localId < numSpikesInBlock) shSpk[localId] = trgSpk[r*W+localId];*)
(*     barrier(CLK_LOCAL_MEM_FENCE);                                        *)
(*     if (id < colStride) for (j < numSpikesInBlock) ... shSpk[j] ...      *)
(*   }                                                                      *)
(* shColLength is written and read at the same places as shSpk.             *)
(***************************************************************************)
PostThreadIds == 0..(MaxPostWorkGroupSize - 1)

PostThreads == 0..(postWgSize - 1)

\* (numSpikes + W - 1) / W
NumSpikeBlocks == (numSpikes + postWgSize - 1) \div postWgSize

\* (r == numSpikeBlocks - 1) ? ((numSpikes - 1) % W) + 1 : W
NumSpikesInBlock(r) ==
    IF r = NumSpikeBlocks - 1 THEN ((numSpikes - 1) % postWgSize) + 1 ELSE postWgSize

PostAt(tid, phase) ==
    /\ tid \in PostThreads
    /\ postPc[tid].r < NumSpikeBlocks
    /\ postPc[tid].phase = phase

\* if (localId < numSpikesInBlock) { shSpk[localId] = spk; }
StageSpike(tid) ==
    /\ PostAt(tid, "stage")
    /\ LET r == postPc[tid].r
       IN postShSpk' = IF tid < NumSpikesInBlock(r)
                       THEN [postShSpk EXCEPT ![tid] = r * postWgSize + tid]
                       ELSE postShSpk
    /\ postPc' = [postPc EXCEPT ![tid].phase = "barrier"]
    /\ UNCHANGED <<postWgSize, numSpikes, postReads>>
    /\ UNCHANGED postOthers

\* barrier(CLK_LOCAL_MEM_FENCE): released when every thread of the workgroup waits
PostBarrier ==
    /\ postWgSize > 0
    /\ \A tid \in PostThreads : postPc[tid].phase = "barrier"
    /\ postPc' = [tid \in PostThreads |-> [postPc[tid] EXCEPT !.phase = "learn"]]
    /\ UNCHANGED <<postWgSize, numSpikes, postShSpk, postReads>>
    /\ UNCHANGED postOthers

\* for (j = 0; j < numSpikesInBlock; j++) { ... shSpk[j] ... }, then r++
LearnPost(tid) ==
    /\ PostAt(tid, "learn")
    /\ LET r == postPc[tid].r
       IN postReads' = [postReads EXCEPT ![tid] =
                Append(@, [j \in 0..(NumSpikesInBlock(r) - 1) |-> postShSpk[j]])]
    /\ postPc' = [postPc EXCEPT ![tid] = [r |-> @.r + 1, phase |-> "stage"]]
    /\ UNCHANGED <<postWgSize, numSpikes, postShSpk>>
    /\ UNCHANGED postOthers

PostInit ==
    /\ postWgSize \in 1..MaxPostWorkGroupSize
    /\ numSpikes \in 0..(postWgSize * MaxSpikeBlocks)
    /\ postPc = [tid \in PostThreads |-> [r |-> 0, phase |-> "stage"]]
    /\ postShSpk = [j \in PostThreads |-> -1]
    /\ postReads = [tid \in PostThreads |-> <<>>]

PostIdle ==
    /\ postWgSize = 0
    /\ numSpikes = 0
    /\ postPc = <<>>
    /\ postShSpk = <<>>
    /\ postReads = <<>>

PostNext ==
    \/ \E tid \in PostThreadIds : StageSpike(tid)
    \/ PostBarrier
    \/ \E tid \in PostThreadIds : LearnPost(tid)

(***************************************************************************)
(* Properties of the spike-block loop                                       *)
(***************************************************************************)
\* in iteration r every entry read is the spike staged for block r
ReadsOwnBlock(tid, k) ==
    \A j \in DOMAIN postReads[tid][k] :
        postReads[tid][k][j] = (k - 1) * postWgSize + j

\* C21: every write of a staging entry and every read of it by another
\* thread of the workgroup are separated by a barrier, so in iteration r every
\* thread reads the entries staged for block r: no thread stores the entries
\* of block r+1 while another thread still reads those of block r.
C21_StagingSeparatedByBarrier ==
    \A tid \in DOMAIN postReads :
        \A k \in DOMAIN postReads[tid] : ReadsOwnBlock(tid, k)

\* the same statement for launches with a single spike block
C21_SingleBlockSeparatedByBarrier ==
    (postWgSize > 0 /\ NumSpikeBlocks <= 1) => C21_StagingSeparatedByBarrier

(***************************************************************************)
(* preSynapseResetKernel: the kernel that advances the dendritic delay     *)
(* pointers, as genSynapseUpdate emits it (backend.cc 564-596).  The       *)
(* routine writes to two streams, the kernel source synapseUpdateKernels   *)
(* and the host source os; both are recorded, statement by statement.      *)
(***************************************************************************)
DendriticDelayGroup ==
    [size : 1..MaxMembers, maxDendriticDelayTimesteps : 1..MaxDendriticDelayTimesteps]

\* One emitted statement or brace, n the merged group's index where there is one
Stmt(tok, n, a, b) == [tok |-> tok, n |-> n, a |-> a, b |-> b]

KernelDeclaration == Stmt("__kernel void preSynapseResetKernel", 0, 0, 0)
IdDeclaration == Stmt("const unsigned int id = get_global_id(0);", 0, 0, 0)
OpenBrace == Stmt("{", 0, 0, 0)
CloseBrace == Stmt("}", 0, 0, 0)
EndLine == Stmt("endl", 0, 0, 0)
\* if(id >= lo && id < hi), written without the first test when lo = 0
RangeTest(n, lo, hi) == Stmt("if", n, lo, hi)
\* MergedSynapseDendriticDelayUpdateGroup<n> *group = &d_merged...Group<n>[id - lo];
GroupPointer(n, lo) == Stmt("group", n, lo, 0)
\* *group->denDelayPtr = (*group->denDelayPtr + 1) % max;
AdvanceDenDelayPtr(n, max) == Stmt("advance", n, max, 0)

\* if(!getMergedSynapseDendriticDelayUpdateGroups().empty()): header, kernel
\* scope and the id declaration
DeclareResetKernel ==
    /\ ddPc = "start"
    /\ ddGroups # <<>>
    /\ ddKernels' = ddKernels \o <<KernelDeclaration, OpenBrace, IdDeclaration>>
    /\ ddPc' = "loop"
    /\ UNCHANGED <<ddGroups, ddN, ddIdPreSynapseReset, ddOs>>
    /\ UNCHANGED ddOthers

\* no dendritic delay update groups: no kernel is declared
SkipResetKernel ==
    /\ ddPc = "start"
    /\ ddGroups = <<>>
    /\ ddPc' = "done"
    /\ UNCHANGED <<ddGroups, ddN, ddIdPreSynapseReset, ddKernels, ddOs>>
    /\ UNCHANGED ddOthers

\* lines 577-583: the comment and the range test of merged group n
EmitRangeTest ==
    /\ ddPc = "loop"
    /\ ddN <= Len(ddGroups)
    /\ ddKernels' = Append(ddKernels,
           RangeTest(ddN, ddIdPreSynapseReset,
                     ddIdPreSynapseReset + ddGroups[ddN].size))
    /\ ddPc' = "scope"
    /\ UNCHANGED <<ddGroups, ddN, ddIdPreSynapseReset, ddOs>>
    /\ UNCHANGED ddOthers

\* line 585: CodeStream::Scope b(os), the opening brace goes to os
OpenGroupScope ==
    /\ ddPc = "scope"
    /\ ddOs' = Append(ddOs, OpenBrace)
    /\ ddPc' = "pointer"
    /\ UNCHANGED <<ddGroups, ddN, ddIdPreSynapseReset, ddKernels>>
    /\ UNCHANGED ddOthers

\* line 588
EmitGroupPointer ==
    /\ ddPc = "pointer"
    /\ ddKernels' = Append(ddKernels, GroupPointer(ddN, ddIdPreSynapseReset))
    /\ ddPc' = "advance"
    /\ UNCHANGED <<ddGroups, ddN, ddIdPreSynapseReset, ddOs>>
    /\ UNCHANGED ddOthers

\* line 590
EmitPointerUpdate ==
    /\ ddPc = "advance"
    /\ ddKernels' = Append(ddKernels,
           AdvanceDenDelayPtr(ddN, ddGroups[ddN].maxDendriticDelayTimesteps))
    /\ ddPc' = "close"
    /\ UNCHANGED <<ddGroups, ddN, ddIdPreSynapseReset, ddOs>>
    /\ UNCHANGED ddOthers

\* line 591, the Scope of line 585 is destroyed and closes its brace on os;
\* line 592, idPreSynapseReset += n.getGroups().size()
CloseGroupScope ==
    /\ ddPc = "close"
    /\ ddOs' = Append(ddOs, CloseBrace)
    /\ ddIdPreSynapseReset' = ddIdPreSynapseReset + ddGroups[ddN].size
    /\ ddN' = ddN + 1
    /\ ddPc' = "loop"
    /\ UNCHANGED <<ddGroups, ddKernels>>
    /\ UNCHANGED ddOthers

\* lines 594-595: os << std::endl, then the kernel's Scope closes
EndResetKernel ==
    /\ ddPc = "loop"
    /\ ddN > Len(ddGroups)
    /\ ddOs' = Append(ddOs, EndLine)
    /\ ddKernels' = Append(ddKernels, CloseBrace)
    /\ ddPc' = "done"
    /\ UNCHANGED <<ddGroups, ddN, ddIdPreSynapseReset>>
    /\ UNCHANGED ddOthers

DdInit ==
    /\ ddGroups \in SeqsUpTo(DendriticDelayGroup, MaxDendriticDelayGroups)
    /\ ddPc = "start"
    /\ ddN = 1
    /\ ddIdPreSynapseReset = 0
    /\ ddKernels = <<>>
    /\ ddOs = <<>>

DdIdle ==
    /\ ddGroups = <<>>
    /\ ddPc = "idle"
    /\ ddN = 0
    /\ ddIdPreSynapseReset = 0
    /\ ddKernels = <<>>
    /\ ddOs = <<>>

DdNext ==
    \/ DeclareResetKernel
    \/ SkipResetKernel
    \/ EmitRangeTest
    \/ OpenGroupScope
    \/ EmitGroupPointer
    \/ EmitPointerUpdate
    \/ CloseGroupScope
    \/ EndResetKernel

\* Position in the kernel stream of the statement of merged group n with
\* the given token (each is written once per group), 0 if it is not there
PositionOf(tok, n) ==
    LET S == {i \in 1..Len(ddKernels) : ddKernels[i].tok = tok /\ ddKernels[i].n = n}
    IN  IF S = {} THEN 0 ELSE CHOOSE i \in S : TRUE

\* The statements an if at position i governs in the kernel source: the
\* brace scope that follows it up to its closing brace, or else the single
\* statement that follows it
GovernedBy(i) ==
    IF i + 1 <= Len(ddKernels) /\ ddKernels[i + 1] = OpenBrace
    THEN LET closes == {j \in (i + 2)..Len(ddKernels) : ddKernels[j] = CloseBrace}
         IN  IF closes = {} THEN (i + 2)..Len(ddKernels)
             ELSE (i + 2)..((CHOOSE j \in closes : \A k \in closes : j <= k) - 1)
    ELSE {i + 1} \cap (1..Len(ddKernels))

\* C22: in the emitted kernel, the group-pointer declaration and the pointer
\* update of every merged dendritic-delay-update group lie inside the brace
\* scope that follows that group's range test, so that only the threads of
\* that range advance denDelayPtr.
C22_PointerUpdateInsideRangeScope ==
    ddPc = "done" =>
        \A n \in 1..Len(ddGroups) :
            LET i == PositionOf("if", n)
            IN  /\ ddKernels[i + 1] = OpenBrace
                /\ PositionOf("group", n) \in GovernedBy(i)
                /\ PositionOf("advance", n) \in GovernedBy(i)

\* What the emitted source does contain: the range test governs the pointer
\* declaration alone, the update follows it outside, and the braces of the
\* group scopes are in the host stream.
C22_UpdateOutsideRangeTest ==
    ddPc = "done" =>
        \A n \in 1..Len(ddGroups) :
            /\ GovernedBy(PositionOf("if", n)) = {PositionOf("group", n)}
            /\ PositionOf("advance", n) = PositionOf("group", n) + 1
            /\ Len(SelectSeq(ddOs, LAMBDA x : x = OpenBrace)) = Len(ddGroups)

(***************************************************************************)
(* Merged struct building.  Each of genNeuronUpdate, genSynapseUpdate and  *)
(* genInit writes, per merged-group role, the build kernels of the role    *)
(* into its program (genMergedStructBuildKernels) and later, inside the    *)
(* build*Program routine, the host code that fills the structs             *)
(* (genMergedStructBuild).  Both helpers take a merged-group list and a    *)
(* role name; the calls are recorded with the list that was passed.        *)
(***************************************************************************)
MergedRoles ==
    {"NeuronSpikeQueueUpdate", "NeuronUpdate",
     "SynapseDendriticDelayUpdate", "PresynapticUpdate", "PostsynapticUpdate",
     "SynapseDynamics",
     "NeuronInit", "SynapseDenseInit", "SynapseConnectivityInit", "SynapseSparseInit"}

BuildRoutines == {"genNeuronUpdate", "genSynapseUpdate", "genInit"}

\* modelMerged.getMerged<role>Groups()
GetMergedGroups(role) == [role |-> role, size |-> sbMerged[role]]

\* genMergedStructBuildKernels(kernels, groups, name)
StructBuildKernels(groups, name) == [groups |-> groups, name |-> name]

\* genMergedStructBuild(os, groups, name, program)
StructBuild(groups, name, program) ==
    [groups |-> groups, name |-> name, program |-> program]

\* backend.cc 233-234
GenNeuronUpdateBuildKernels ==
    /\ sbRoutine = "genNeuronUpdate" /\ sbPc = "kernels"
    /\ sbBuildKernels' = sbBuildKernels \o
        <<StructBuildKernels(GetMergedGroups("NeuronSpikeQueueUpdate"), "NeuronSpikeQueueUpdate"),
          StructBuildKernels(GetMergedGroups("NeuronUpdate"), "NeuronUpdate")>>
    /\ sbPc' = "buildProgram"
    /\ UNCHANGED <<sbMerged, sbRoutine, sbStructBuilds>>
    /\ UNCHANGED sbOthers

\* backend.cc 451-452, in buildNeuronUpdateProgram
BuildNeuronUpdateProgramStructs ==
    /\ sbRoutine = "genNeuronUpdate" /\ sbPc = "buildProgram"
    /\ sbStructBuilds' = sbStructBuilds \o
        <<StructBuild(GetMergedGroups("NeuronSpikeQueueUpdate"), "NeuronSpikeQueueUpdate", "neuronUpdateProgram"),
          StructBuild(GetMergedGroups("NeuronUpdate"), "NeuronUpdate", "neuronUpdateProgram")>>
    /\ sbPc' = "done"
    /\ UNCHANGED <<sbMerged, sbRoutine, sbBuildKernels>>
    /\ UNCHANGED sbOthers

\* backend.cc 559-562
GenSynapseUpdateBuildKernels ==
    /\ sbRoutine = "genSynapseUpdate" /\ sbPc = "kernels"
    /\ sbBuildKernels' = sbBuildKernels \o
        <<StructBuildKernels(GetMergedGroups("SynapseDendriticDelayUpdate"), "SynapseDendriticDelayUpdate"),
          StructBuildKernels(GetMergedGroups("PresynapticUpdate"), "PresynapticUpdate"),
          StructBuildKernels(GetMergedGroups("PostsynapticUpdate"), "PostsynapticUpdate"),
          StructBuildKernels(GetMergedGroups("SynapseDynamics"), "SynapseDynamics")>>
    /\ sbPc' = "buildProgram"
    /\ UNCHANGED <<sbMerged, sbRoutine, sbStructBuilds>>
    /\ UNCHANGED sbOthers

\* backend.cc 943-945, in buildSynapseUpdateProgram
BuildSynapseUpdateProgramStructs ==
    /\ sbRoutine = "genSynapseUpdate" /\ sbPc = "buildProgram"
    /\ sbStructBuilds' = sbStructBuilds \o
        <<StructBuild(GetMergedGroups("SynapseDendriticDelayUpdate"), "SynapseDendriticDelayUpdate", "synapseUpdateProgram"),
          StructBuild(GetMergedGroups("PresynapticUpdate"), "PresynapticUpdate", "synapseUpdateProgram"),
          StructBuild(GetMergedGroups("PostsynapticUpdate"), "PostsynapticUpdate", "synapseUpdateProgram")>>
    /\ sbPc' = "done"
    /\ UNCHANGED <<sbMerged, sbRoutine, sbBuildKernels>>
    /\ UNCHANGED sbOthers

\* backend.cc 1073-1076
GenInitBuildKernels ==
    /\ sbRoutine = "genInit" /\ sbPc = "kernels"
    /\ sbBuildKernels' = sbBuildKernels \o
        <<StructBuildKernels(GetMergedGroups("NeuronInit"), "NeuronInit"),
          StructBuildKernels(GetMergedGroups("SynapseDenseInit"), "SynapseDenseInit"),
          StructBuildKernels(GetMergedGroups("SynapseConnectivityInit"), "SynapseConnectivityInit"),
          StructBuildKernels(GetMergedGroups("SynapseSparseInit"), "SynapseSparseInit")>>
    /\ sbPc' = "buildProgram"
    /\ UNCHANGED <<sbMerged, sbRoutine, sbStructBuilds>>
    /\ UNCHANGED sbOthers

\* backend.cc 1349-1352, in buildInitializeProgram
BuildInitializeProgramStructs ==
    /\ sbRoutine = "genInit" /\ sbPc = "buildProgram"
    /\ sbStructBuilds' = sbStructBuilds \o
        <<StructBuild(GetMergedGroups("NeuronInit"), "NeuronInit", "initializeProgram"),
          StructBuild(GetMergedGroups("SynapseDenseInit"), "SynapseDenseInit", "initializeProgram"),
          StructBuild(GetMergedGroups("SynapseDenseInit"), "SynapseConnectivityInit", "initializeProgram"),
          StructBuild(GetMergedGroups("SynapseSparseInit"), "SynapseSparseInit", "initializeProgram")>>
    /\ sbPc' = "done"
    /\ UNCHANGED <<sbMerged, sbRoutine, sbBuildKernels>>
    /\ UNCHANGED sbOthers

SbInit ==
    /\ sbMerged \in [MergedRoles -> 0..MaxRoleGroups]
    /\ sbRoutine \in BuildRoutines
    /\ sbPc = "kernels"
    /\ sbBuildKernels = <<>>
    /\ sbStructBuilds = <<>>

SbIdle ==
    /\ sbMerged = <<>>
    /\ sbRoutine = "idle"
    /\ sbPc = "idle"
    /\ sbBuildKernels = <<>>
    /\ sbStructBuilds = <<>>

SbNext ==
    \/ GenNeuronUpdateBuildKernels
    \/ BuildNeuronUpdateProgramStructs
    \/ GenSynapseUpdateBuildKernels
    \/ BuildSynapseUpdateProgramStructs
    \/ GenInitBuildKernels
    \/ BuildInitializeProgramStructs

\* Every role whose build kernels are in the program has a struct-build call
\* in the build routine, and every struct-build call passes the list of the
\* role it names
StructBuildsMatchKernels ==
    /\ \A i \in 1..Len(sbBuildKernels) :
        \E j \in 1..Len(sbStructBuilds) :
            /\ sbStructBuilds[j].name = sbBuildKernels[i].name
            /\ sbStructBuilds[j].groups = sbBuildKernels[i].groups
    /\ \A j \in 1..Len(sbStructBuilds) :
        sbStructBuilds[j].groups.role = sbStructBuilds[j].name

\* C23: when a build*Program routine has been emitted, a host struct-build
\* call exists for every merged-group role whose build kernel was emitted
\* into that program, and each call pairs the role name with that same
\* role's merged-group list.
C23_StructBuildPerEmittedRole ==
    sbPc = "done" => StructBuildsMatchKernels

\* The neuron update program, on its own, is consistent.
C23_NeuronUpdateRolesBuilt ==
    (sbPc = "done" /\ sbRoutine = "genNeuronUpdate") => StructBuildsMatchKernels

(***************************************************************************)
(* Sparse initialisation of a SPARSE synapse group with learn-post code    *)
(* (backend.cc 1185-1321, 1340-1423): the host routines initialize() and   *)
(* initializeSparse() enqueue a fill of colLength, initializeKernel and    *)
(* initializeSparseKernel on the in-order command queue; the threads of    *)
(* initializeSparseKernel build the column-major remap structure with      *)
(* atomic increments of colLength.  One merged group with one member, so   *)
(* that popSubs["id"] is the global id.                                    *)
(***************************************************************************)
SparseRows(numTrg, maxConnections) ==
    {row \in SeqsUpTo(0..(numTrg - 1), maxConnections) :
        \A a, b \in 1..Len(row) : a # b => row[a] # row[b]}

SparseGroups ==
    UNION {UNION {UNION {UNION {
        [workGroupSize : {w}, numSrcNeurons : {s}, numTrgNeurons : {g},
         maxConnections : {m}, synapseDynamicsCode : BOOLEAN,
         ind : [1..s -> SparseRows(g, m)]]
      : m \in 1..g} : g \in 1..MaxSparseTrgNeurons}
      : s \in 1..MaxSparseSrcNeurons} : w \in 1..MaxSparseWorkGroupSize}

\* group->rowStride (the row length is padded to maxConnections), group->colStride
SiRowStride == siGroup.maxConnections
SiColStride == siGroup.numSrcNeurons
\* group->rowLength[row], rows counted from 0
SiRowLength(row) == Len(siGroup.ind[row + 1])
\* group->ind[idx]
SiInd(idx) == siGroup.ind[(idx \div SiRowStride) + 1][(idx % SiRowStride) + 1]

\* idSparseInitStart after genParallelGroup: padSize(sg.getMaxConnections(), workGroupSize)
IdSparseInitStart == PadSize(siGroup.maxConnections, siGroup.workGroupSize)
\* idInitStart: the neuron init groups of the source and target population
IdInitStart ==
    PadSize(siGroup.numSrcNeurons, siGroup.workGroupSize)
        + PadSize(siGroup.numTrgNeurons, siGroup.workGroupSize)

SiThreadIds == 0..(PadSize(MaxSparseTrgNeurons, MaxSparseWorkGroupSize) - 1)
SiWorkGroupIds == 0..(MaxSparseTrgNeurons - 1)
SiThreads == 0..(IdSparseInitStart - 1)
SiLocalId(tid) == tid % siGroup.workGroupSize
SiWorkGroup(tid) == tid \div siGroup.workGroupSize
SiWorkGroupThreads(w) == {tid \in SiThreads : SiWorkGroup(tid) = w}

\* numBlocks and numRowsInBlock of the generated kernel
SiNumBlocks == (siGroup.numSrcNeurons + siGroup.workGroupSize - 1) \div siGroup.workGroupSize
SiNumRowsInBlock(r) ==
    IF r = SiNumBlocks - 1
    THEN ((siGroup.numSrcNeurons - 1) % siGroup.workGroupSize) + 1
    ELSE siGroup.workGroupSize

\* Line 1316 writes "remap->[" into the kernel of a group with synapse
\* dynamics code: the source of the initialize program is then not OpenCL C
KernelSourceWellFormed == ~siGroup.synapseDynamicsCode

\* buildInitializeProgram, lines 1340-1345: build the program, throw on failure
BuildInitializeProgram ==
    /\ siHostPc = "buildInitializeProgram"
    /\ siHostPc' = IF KernelSourceWellFormed THEN "initialize" ELSE "threw"
    /\ UNCHANGED <<siGroup, siQueue, siLaunched, siPc, siShRowLength, siColLength, siRemap>>
    /\ UNCHANGED siOthers

\* what initialize() enqueues when idInitStart > 0, lines 1379-1401: the fill
\* of d_colLength for a SPARSE group with learn-post code, then the kernel
CommandsOfInitializeWithoutFill == <<"initializeKernel">>
CommandsOfInitialize == <<"fillColLength", "initializeKernel">>

\* initialize()
Initialize ==
    /\ siHostPc = "initialize"
    /\ siQueue' = siQueue \o (IF IdInitStart > 0 THEN CommandsOfInitialize ELSE <<>>)
    /\ siHostPc' = "initializeSparse"
    /\ UNCHANGED <<siGroup, siLaunched, siPc, siShRowLength, siColLength, siRemap>>
    /\ UNCHANGED siOthers

\* initializeSparse(), lines 1408-1423
InitializeSparse ==
    /\ siHostPc = "initializeSparse"
    /\ siQueue' = siQueue \o
        (IF IdSparseInitStart > 0 THEN <<"initializeSparseKernel">> ELSE <<>>)
    /\ siHostPc' = "returned"
    /\ UNCHANGED <<siGroup, siLaunched, siPc, siShRowLength, siColLength, siRemap>>
    /\ UNCHANGED siOthers

\* the device completes enqueueFillBuffer(d_colLength, 0, 0, numTrgNeurons * sizeof(unsigned int))
FillColLength ==
    /\ siQueue # <<>> /\ Head(siQueue) = "fillColLength"
    /\ siColLength' = [p \in DOMAIN siColLength |-> 0]
    /\ siQueue' = Tail(siQueue)
    /\ UNCHANGED <<siGroup, siHostPc, siLaunched, siPc, siShRowLength, siRemap>>
    /\ UNCHANGED siOthers

\* the device runs initializeKernel, which touches neither colLength nor remap
RunInitializeKernel ==
    /\ siQueue # <<>> /\ Head(siQueue) = "initializeKernel"
    /\ siQueue' = Tail(siQueue)
    /\ UNCHANGED <<siGroup, siHostPc, siLaunched, siPc, siShRowLength, siColLength, siRemap>>
    /\ UNCHANGED siOthers

\* the device starts initializeSparseKernel: unsigned int idx = id, r = 0
LaunchInitializeSparseKernel ==
    /\ siQueue # <<>> /\ Head(siQueue) = "initializeSparseKernel"
    /\ ~siLaunched
    /\ siLaunched' = TRUE
    /\ siPc' = [tid \in SiThreads |->
                  [r |-> 0, i |-> 0, idx |-> tid, colLocation |-> 0,
                   phase |-> "barrierLoad"]]
    /\ UNCHANGED <<siGroup, siHostPc, siQueue, siShRowLength, siColLength, siRemap>>
    /\ UNCHANGED siOthers

\* barrier(CLK_LOCAL_MEM_FENCE), lines 1231 and 1273: all threads of a
\* workgroup have arrived at the same barrier
SiBarrier(w) ==
    /\ siLaunched
    /\ SiWorkGroupThreads(w) # {}
    /\ \E phase \in {"barrierLoad", "barrierRows"} :
        /\ \A tid \in SiWorkGroupThreads(w) : siPc[tid].phase = phase
        /\ siPc' = [tid \in SiThreads |->
                      IF SiWorkGroup(tid) = w
                      THEN [siPc[tid] EXCEPT !.phase =
                              IF phase = "barrierLoad" THEN "load" ELSE "rows"]
                      ELSE siPc[tid]]
    /\ UNCHANGED <<siGroup, siHostPc, siQueue, siLaunched, siShRowLength, siColLength, siRemap>>
    /\ UNCHANGED siOthers

\* lines 1232-1236: if (localId < numRowsInBlock) shRowLength[localId] = rowLength[r * wg + localId]
LoadRowLength(tid) ==
    /\ siLaunched /\ tid \in SiThreads
    /\ siPc[tid].phase = "load"
    /\ siShRowLength' =
        IF SiLocalId(tid) < SiNumRowsInBlock(siPc[tid].r)
        THEN [siShRowLength EXCEPT ![SiWorkGroup(tid)][SiLocalId(tid)] =
                 SiRowLength(siPc[tid].r * siGroup.workGroupSize + SiLocalId(tid))]
        ELSE siShRowLength
    /\ siPc' = [siPc EXCEPT ![tid].phase = "barrierRows", ![tid].i = 0]
    /\ UNCHANGED <<siGroup, siHostPc, siQueue, siLaunched, siColLength, siRemap>>
    /\ UNCHANGED siOthers

\* lines 1281, 1297-1303: this thread has a synapse in row i,
\* colLocation = atomic_add(&colLength[postIndex], 1)
AtomicAddColLength(tid) ==
    /\ siLaunched /\ tid \in SiThreads
    /\ siPc[tid].phase = "rows"
    /\ siPc[tid].i < SiNumRowsInBlock(siPc[tid].r)
    /\ tid < siShRowLength[SiWorkGroup(tid)][siPc[tid].i]
    /\ LET postIndex == SiInd(siPc[tid].idx)
       IN  /\ siPc' = [siPc EXCEPT ![tid].colLocation = siColLength[postIndex],
                                   ![tid].phase = "remap"]
           /\ siColLength' = [siColLength EXCEPT ![postIndex] = @ + 1]
    /\ UNCHANGED <<siGroup, siHostPc, siQueue, siLaunched, siShRowLength, siRemap>>
    /\ UNCHANGED siOthers

\* lines 1305-1309, 1321: remap[postIndex * colStride + colLocation] = idx; idx += rowStride
WriteRemap(tid) ==
    /\ siLaunched /\ tid \in SiThreads
    /\ siPc[tid].phase = "remap"
    /\ LET colMajorIndex == (SiInd(siPc[tid].idx) * SiColStride) + siPc[tid].colLocation
       IN  siRemap' = [siRemap EXCEPT ![colMajorIndex] = siPc[tid].idx]
    /\ siPc' = [siPc EXCEPT ![tid].phase = "rows", ![tid].i = @ + 1,
                            ![tid].idx = @ + SiRowStride]
    /\ UNCHANGED <<siGroup, siHostPc, siQueue, siLaunched, siShRowLength, siColLength>>
    /\ UNCHANGED siOthers

\* lines 1281, 1321: no synapse for this thread in row i; idx += rowStride
SkipRow(tid) ==
    /\ siLaunched /\ tid \in SiThreads
    /\ siPc[tid].phase = "rows"
    /\ siPc[tid].i < SiNumRowsInBlock(siPc[tid].r)
    /\ ~(tid < siShRowLength[SiWorkGroup(tid)][siPc[tid].i])
    /\ siPc' = [siPc EXCEPT ![tid].i = @ + 1, ![tid].idx = @ + SiRowStride]
    /\ UNCHANGED <<siGroup, siHostPc, siQueue, siLaunched, siShRowLength, siColLength, siRemap>>
    /\ UNCHANGED siOthers

\* end of the row loop: next block, or the end of the kernel
EndRowBlock(tid) ==
    /\ siLaunched /\ tid \in SiThreads
    /\ siPc[tid].phase = "rows"
    /\ siPc[tid].i = SiNumRowsInBlock(siPc[tid].r)
    /\ siPc' = [siPc EXCEPT ![tid].r = @ + 1, ![tid].i = 0,
                    ![tid].phase = IF siPc[tid].r + 1 < SiNumBlocks
                                   THEN "barrierLoad" ELSE "done"]
    /\ UNCHANGED <<siGroup, siHostPc, siQueue, siLaunched, siShRowLength, siColLength, siRemap>>
    /\ UNCHANGED siOthers

\* every thread has left the kernel: the command is complete
CompleteInitializeSparseKernel ==
    /\ siLaunched
    /\ \A tid \in SiThreads : siPc[tid].phase = "done"
    /\ siLaunched' = FALSE
    /\ siQueue' = Tail(siQueue)
    /\ UNCHANGED <<siGroup, siHostPc, siPc, siShRowLength, siColLength, siRemap>>
    /\ UNCHANGED siOthers

\* Device buffers and __local arrays hold arbitrary values until written
SiInit ==
    /\ siGroup \in SparseGroups
    /\ siHostPc = "buildInitializeProgram"
    /\ siQueue = <<>>
    /\ siLaunched = FALSE
    /\ siPc = <<>>
    /\ siShRowLength = [w \in 0..(IdSparseInitStart \div siGroup.workGroupSize - 1) |->
                          [l \in 0..(siGroup.workGroupSize - 1) |-> 0]]
    /\ siColLength \in [0..(siGroup.numTrgNeurons - 1) -> 0..1]
    /\ siRemap = [c \in 0..(siGroup.numTrgNeurons * SiColStride - 1) |-> -1]

SiIdle ==
    /\ siGroup = <<>>
    /\ siHostPc = "idle"
    /\ siQueue = <<>>
    /\ siLaunched = FALSE
    /\ siPc = <<>>
    /\ siShRowLength = <<>>
    /\ siColLength = <<>>
    /\ siRemap = <<>>

SiNext ==
    \/ BuildInitializeProgram
    \/ Initialize
    \/ InitializeSparse
    \/ FillColLength
    \/ RunInitializeKernel
    \/ LaunchInitializeSparseKernel
    \/ \E w \in SiWorkGroupIds : SiBarrier(w)
    \/ \E tid \in SiThreadIds : LoadRowLength(tid)
    \/ \E tid \in SiThreadIds : AtomicAddColLength(tid)
    \/ \E tid \in SiThreadIds : WriteRemap(tid)
    \/ \E tid \in SiThreadIds : SkipRow(tid)
    \/ \E tid \in SiThreadIds : EndRowBlock(tid)
    \/ CompleteInitializeSparseKernel

\* Row-major indices of the synapses whose postsynaptic index is p
SynapsesOnto(p) ==
    {row * SiRowStride + j : row \in 0..(siGroup.numSrcNeurons - 1), j \in 0..(SiRowStride - 1)}
        \cap {idx \in 0..(siGroup.numSrcNeurons * SiRowStride - 1) :
                /\ idx % SiRowStride < SiRowLength(idx \div SiRowStride)
                /\ SiInd(idx) = p}

SparseInitComplete == siHostPc = "returned" /\ siQueue = <<>>

NeuronGroups == 1..MaxNeuronGroups

\* NeuronGroup::addInSyn(sg) and NeuronGroup::addOutSyn(sg): append to the list
AddInSyn(m_InSyn, ng, sg) == [m_InSyn EXCEPT ![ng] = Append(@, sg)]
AddOutSyn(m_OutSyn, ng, sg) == [m_OutSyn EXCEPT ![ng] = Append(@, sg)]

\* line 23: trgNeuronGroup->addInSyn(this)
InSynOwnerSource(srcNeuronGroup, trgNeuronGroup) == srcNeuronGroup
InSynOwner(srcNeuronGroup, trgNeuronGroup) == trgNeuronGroup
\* line 24: srcNeuronGroup->addOutSyn(this)
OutSynOwner(srcNeuronGroup, trgNeuronGroup) == srcNeuronGroup

\* SynapseGroupInternal(name, ..., srcNeuronGroup, trgNeuronGroup, ...)
ConstructSynapseGroupInternal(srcNeuronGroup, trgNeuronGroup) ==
    /\ Len(sgSynapseGroups) < MaxConstructedSynapseGroups
    /\ LET this == Len(sgSynapseGroups) + 1
       IN  /\ sgSynapseGroups' = Append(sgSynapseGroups,
                  [src |-> srcNeuronGroup, trg |-> trgNeuronGroup])
           /\ sgInSyn' = AddInSyn(sgInSyn, InSynOwner(srcNeuronGroup, trgNeuronGroup), this)
           /\ sgOutSyn' = AddOutSyn(sgOutSyn, OutSynOwner(srcNeuronGroup, trgNeuronGroup), this)
    /\ UNCHANGED sgOthers

SgInit ==
    /\ sgSynapseGroups = <<>>
    /\ sgInSyn = [ng \in NeuronGroups |-> <<>>]
    /\ sgOutSyn = [ng \in NeuronGroups |-> <<>>]

SgIdle ==
    /\ sgSynapseGroups = <<>>
    /\ sgInSyn = <<>>
    /\ sgOutSyn = <<>>

SgNext ==
    \E srcNeuronGroup \in NeuronGroups, trgNeuronGroup \in NeuronGroups :
        ConstructSynapseGroupInternal(srcNeuronGroup, trgNeuronGroup)

\* Number of times sg occurs in a list
Occurrences(list, sg) == Cardinality({i \in 1..Len(list) : list[i] = sg})

\* C25: after any sequence of constructions every synapse group occurs
\* exactly once in the incoming list of its target neuron group, exactly once
\* in the outgoing list of its source neuron group, and in no list of any
\* other neuron group; a self-connection is in both lists of its neuron group.
C25_RegisteredWithSourceAndTarget ==
    \A sg \in 1..Len(sgSynapseGroups), ng \in NeuronGroups :
        /\ Occurrences(sgInSyn[ng], sg) = IF ng = sgSynapseGroups[sg].trg THEN 1 ELSE 0
        /\ Occurrences(sgOutSyn[ng], sg) = IF ng = sgSynapseGroups[sg].src THEN 1 ELSE 0

\* Several synapse groups exist, among them a self-connection and two that
\* share their target but not their source
C25_Witness ==
    /\ \E sg \in 1..Len(sgSynapseGroups) :
        sgSynapseGroups[sg].src = sgSynapseGroups[sg].trg
    /\ \E a, b \in 1..Len(sgSynapseGroups) :
        /\ sgSynapseGroups[a].trg = sgSynapseGroups[b].trg
        /\ sgSynapseGroups[a].src # sgSynapseGroups[b].src
        /\ Len(sgInSyn[sgSynapseGroups[a].trg]) > 1

(***************************************************************************)
(* Barriers inside the dispatcher branches of updateNeuronsKernel          *)
(* (backend.cc 109-127, 315-424).  A barrier synchronises the threads of   *)
(* one workgroup and workgroups do not wait for each other, so one         *)
(* workgroup of the launch, any of them, is followed through its branch.   *)
(***************************************************************************)
NeuronUpdateMergedGroup ==
    [spikeEventRequired : BOOLEAN, thresholdConditionCode : BOOLEAN,
     numNeurons : SeqsUpTo(1..MaxNeurons, MaxMembers) \ {<<>>}]

\* what a member adds to idStart without the padding
PaddedNeuronsUnpadded(neurons, workGroupSize) == neurons
\* backend.cc 120 and 316: padSize(ng.getNumNeurons(), workgroup size)
PaddedNeurons(neurons, workGroupSize) == PadSize(neurons, workGroupSize)

\* all members of all merged groups in dispatch order, as <<merged group, member>>
NbMembers ==
    Concat([m \in 1..Len(nbMergedGroups) |->
              [k \in 1..Len(nbMergedGroups[m].numNeurons) |-> <<m, k>>]])

NbNumNeurons(member) == nbMergedGroups[member[1]].numNeurons[member[2]]

RECURSIVE GenGroupStartIDs(_, _)
\* genGroupStartIDs: the start id written for each member, idStart advancing
\* by the padded size of each member in turn
GenGroupStartIDs(members, start) ==
    IF members = <<>> THEN <<>>
    ELSE <<start>> \o
         GenGroupStartIDs(Tail(members),
             start + PaddedNeurons(NbNumNeurons(Head(members)), nbWorkGroupSize))

NbStartID(n) == GenGroupStartIDs(NbMembers, 0)[n]
NbEndID(n) == NbStartID(n) + PaddedNeurons(NbNumNeurons(NbMembers[n]), nbWorkGroupSize)
\* idStart after the dispatcher, the number of threads genKernelDimensions rounds up
NbIdStart == NbEndID(Len(NbMembers))
NbGlobalWorkSize == GlobalWorkSize(NbIdStart, nbWorkGroupSize)

NbLocalIds == 0..(nbWorkGroupSize - 1)
NbGlobalId(localId) == nbWorkGroup * nbWorkGroupSize + localId

\* the dispatcher: the position in NbMembers of the member whose range
\* holds the id, 0 if no range holds it
NbMemberOf(id) ==
    LET members == NbMembers
        starts == GenGroupStartIDs(members, 0)
        S == {n \in 1..Len(members) :
                /\ starts[n] <= id
                /\ id < starts[n] + PaddedNeurons(NbNumNeurons(members[n]), nbWorkGroupSize)}
    IN  IF S = {} THEN 0 ELSE CHOOSE n \in S : TRUE

\* the barriers emitted into the branch of a merged group, by the line that
\* emits them: after the guarded neuron code, after the spike-like event
\* reservation, after the spike reservation
BranchBarriers(m) ==
    <<<<m, 356>>>>
    \o (IF nbMergedGroups[m].spikeEventRequired THEN <<<<m, 372>>>> ELSE <<>>)
    \o (IF nbMergedGroups[m].thresholdConditionCode THEN <<<<m, 390>>>> ELSE <<>>)

\* the barriers on the path of a thread: those of the branch it takes
NbPath(localId) ==
    LET n == NbMemberOf(NbGlobalId(localId))
    IN  IF n = 0 THEN <<>> ELSE BranchBarriers(NbMembers[n][1])

\* lines 333-354: if(id < group->numNeurons) { neuron code }, which holds no
\* barrier; the thread then arrives at its first barrier
NeuronCode(localId) ==
    /\ localId \in NbLocalIds
    /\ nbPc[localId].phase = "neuron"
    /\ nbPc' = [nbPc EXCEPT ![localId].phase =
                  IF NbPath(localId) = <<>> THEN "done" ELSE "barrier"]
    /\ UNCHANGED <<nbWorkGroupSize, nbMergedGroups, nbWorkGroup>>
    /\ UNCHANGED nbOthers

\* barrier(CLK_LOCAL_MEM_FENCE): every thread of the workgroup has arrived at
\* this same barrier; each goes on to its next barrier (the code between two
\* barriers is the reservation by one thread) or to the copy-out
BranchBarrier ==
    /\ \E b \in {NbPath(l)[nbPc[l].passed + 1] : l \in {x \in NbLocalIds : nbPc[x].phase = "barrier"}} :
        \A l \in NbLocalIds :
            /\ nbPc[l].phase = "barrier"
            /\ NbPath(l)[nbPc[l].passed + 1] = b
    /\ nbPc' = [l \in NbLocalIds |->
                  [phase |-> IF nbPc[l].passed + 1 = Len(NbPath(l)) THEN "copy" ELSE "barrier",
                   passed |-> nbPc[l].passed + 1]]
    /\ UNCHANGED <<nbWorkGroupSize, nbMergedGroups, nbWorkGroup>>
    /\ UNCHANGED nbOthers

\* lines 396-423: the copy-out of staged events and spikes, end of the branch
CopyOut(localId) ==
    /\ localId \in NbLocalIds
    /\ nbPc[localId].phase = "copy"
    /\ nbPc' = [nbPc EXCEPT ![localId].phase = "done"]
    /\ UNCHANGED <<nbWorkGroupSize, nbMergedGroups, nbWorkGroup>>
    /\ UNCHANGED nbOthers

NbInit ==
    /\ nbWorkGroupSize \in 1..MaxNeuronWorkGroupSize
    /\ nbMergedGroups \in SeqsUpTo(NeuronUpdateMergedGroup, MaxDispGroups) \ {<<>>}
    /\ nbWorkGroup \in 0..(NbGlobalWorkSize \div nbWorkGroupSize - 1)
    /\ nbPc = [l \in NbLocalIds |-> [phase |-> "neuron", passed |-> 0]]

NbIdle ==
    /\ nbWorkGroupSize = 0
    /\ nbMergedGroups = <<>>
    /\ nbWorkGroup = 0
    /\ nbPc = <<>>

NbNext ==
    \/ \E localId \in 0..(MaxNeuronWorkGroupSize - 1) : NeuronCode(localId)
    \/ BranchBarrier
    \/ \E localId \in 0..(MaxNeuronWorkGroupSize - 1) : CopyOut(localId)

\* C27: every barrier in a dispatcher branch of updateNeuronsKernel is reached
\* by all threads of a workgroup or by none: the start id and the padded size
\* of every member are multiples of the workgroup size, all threads of the
\* workgroup are in the range of one member, so they have the same barriers
\* on their path, and no thread leaves the kernel or waits at another barrier
\* while a thread of its workgroup waits at a barrier.
C27_BarriersReachedByWholeWorkGroup ==
    LET members == NbMembers
        starts == GenGroupStartIDs(members, 0)
        memberOf == [l \in NbLocalIds |-> NbMemberOf(NbGlobalId(l))]
    IN  /\ \A n \in 1..Len(members) :
            /\ starts[n] % nbWorkGroupSize = 0
            /\ PaddedNeurons(NbNumNeurons(members[n]), nbWorkGroupSize) % nbWorkGroupSize = 0
        /\ \A l, k \in NbLocalIds :
            /\ memberOf[l] # 0
            /\ memberOf[l] = memberOf[k]
            /\ BranchBarriers(members[memberOf[l]][1]) = BranchBarriers(members[memberOf[k]][1])
            /\ nbPc[l].phase = "barrier" =>
                /\ nbPc[k].phase \in {"neuron", "barrier"}
                /\ nbPc[k].passed = nbPc[l].passed

\* A workgroup of two threads, in a launch over two merged groups with
\* different barriers whose members have sizes that are not multiples of the
\* workgroup size, has passed its last barrier
C27_Witness ==
    /\ nbWorkGroupSize > 1
    /\ Len(nbMergedGroups) > 1
    /\ BranchBarriers(1) # BranchBarriers(2)
    /\ \A n \in 1..Len(NbMembers) : NbNumNeurons(NbMembers[n]) % nbWorkGroupSize # 0
    /\ nbWorkGroup > 0
    /\ \A l \in NbLocalIds : nbPc[l].phase = "copy" /\ nbPc[l].passed > 1

(***************************************************************************)
(* The postsynaptic model code of the neuron update handler                *)
(* (generateNeuronUpdate.cc 112-160 and 308-336): a first loop over the    *)
(* incoming merged postsynaptic inputs pulls inSyn and the model's         *)
(* variables into locals and applies the input, a second loop after the    *)
(* neuron code runs the decay code and writes the locals back.             *)
(***************************************************************************)
\* m.first of one entry of getMergedInSyn() and its postsynaptic model:
\* whether the matrix type has INDIVIDUAL_PSM, the number of psm->getVars(),
\* whether getSupportCode() is non-empty, whether the postsynaptic model is
\* merged (isPSModelMerged())
IncomingPostsynapticInputs ==
    [individualPSM : BOOLEAN, numVars : 0..MaxPsmVars,
     supportCode : BOOLEAN, psModelMerged : BOOLEAN]

\* sg->getName() of the m-th input
SgName(m) == <<"sg", m>>
\* sg->getPSModelTargetName(): the name of the merge target when the
\* postsynaptic model is merged, the synapse group's own name otherwise
PSModelTargetName(m) == IF pmInSyn[m].psModelMerged THEN <<"merged", m>> ELSE SgName(m)

PsmStmt(kind, name, var) == [kind |-> kind, name |-> name, var |-> var]

\* scalar linSyn<target> = inSyn<target>[id];
PullInSyn(m) == <<PsmStmt("declare linSyn", PSModelTargetName(m), 0)>>
\* <type> lps<var><target> = <var><target>[id]; for each variable
PullVars(m) ==
    [v \in 1..pmInSyn[m].numVars |-> PsmStmt("declare lps", PSModelTargetName(m), v)]
\* <var><target>[id] = lps<var><target>; for each variable
PushVars(m) ==
    [v \in 1..pmInSyn[m].numVars |-> PsmStmt("store lps", PSModelTargetName(m), v)]
\* { using namespace <name>_postsyn; code }
InNamespace(name, code) ==
    <<PsmStmt("using namespace", name, 0), code, PsmStmt("close namespace", name, 0)>>

\* the namespace opened around the apply-input code (line 154) ...
ApplyInputNamespace(m) == PSModelTargetName(m)
\* ... and around the decay code (line 324)
DecayNamespace(m) == SgName(m)

\* lines 112-118
EmitPullInSyn ==
    /\ pmPc = "pull inSyn"
    /\ pmM <= Len(pmInSyn)
    /\ pmOs' = pmOs \o PullInSyn(pmM)
    /\ pmPc' = "pull vars"
    /\ UNCHANGED <<pmInSyn, pmM>>
    /\ UNCHANGED pmOthers

\* lines 133-140: if (sg->getMatrixType() & INDIVIDUAL_PSM) for v : psm->getVars()
EmitPullVars ==
    /\ pmPc = "pull vars"
    /\ pmOs' = pmOs \o (IF pmInSyn[pmM].individualPSM THEN PullVars(pmM) ELSE <<>>)
    /\ pmPc' = "apply input"
    /\ UNCHANGED <<pmInSyn, pmM>>
    /\ UNCHANGED pmOthers

\* lines 142-159: the apply-input code, inside the support code namespace
\* when there is support code; next entry of the first loop
EmitApplyInput ==
    /\ pmPc = "apply input"
    /\ LET psCode == PsmStmt("psCode", PSModelTargetName(pmM), 0)
       IN  pmOs' = pmOs \o (IF pmInSyn[pmM].supportCode
                            THEN InNamespace(ApplyInputNamespace(pmM), psCode)
                            ELSE <<psCode>>)
    /\ pmM' = pmM + 1
    /\ pmPc' = "pull inSyn"
    /\ UNCHANGED pmInSyn
    /\ UNCHANGED pmOthers

\* lines 162-306: current sources, neuron code, spikes and the write-back of the
\* neuron variables, none of which declares a variable of a postsynaptic model
EmitNeuronCode ==
    /\ pmPc = "pull inSyn"
    /\ pmM > Len(pmInSyn)
    /\ pmOs' = Append(pmOs, PsmStmt("neuron code", <<>>, 0))
    /\ pmM' = 1
    /\ pmPc' = "decay"
    /\ UNCHANGED pmInSyn
    /\ UNCHANGED pmOthers

\* lines 308-329: the decay code, inside the support code namespace when there
\* is support code
EmitDecay ==
    /\ pmPc = "decay"
    /\ pmM <= Len(pmInSyn)
    /\ LET pdCode == PsmStmt("pdCode", PSModelTargetName(pmM), 0)
       IN  pmOs' = pmOs \o (IF pmInSyn[pmM].supportCode
                            THEN InNamespace(DecayNamespace(pmM), pdCode)
                            ELSE <<pdCode>>)
    /\ pmPc' = "push"
    /\ UNCHANGED <<pmInSyn, pmM>>
    /\ UNCHANGED pmOthers

\* lines 331-334: inSyn<target>[id] = linSyn<target>, then for v : psm->getVars()
\* the store of lps<var><target>; next entry of the second loop
EmitPush ==
    /\ pmPc = "push"
    /\ pmOs' = pmOs \o <<PsmStmt("store linSyn", PSModelTargetName(pmM), 0)>> \o PushVars(pmM)
    /\ pmM' = pmM + 1
    /\ pmPc' = "decay"
    /\ UNCHANGED pmInSyn
    /\ UNCHANGED pmOthers

\* the second loop ends and the handler returns
EndHandler ==
    /\ pmPc = "decay"
    /\ pmM > Len(pmInSyn)
    /\ pmPc' = "done"
    /\ UNCHANGED <<pmInSyn, pmM, pmOs>>
    /\ UNCHANGED pmOthers

PmInit ==
    /\ pmInSyn \in SeqsUpTo(IncomingPostsynapticInputs, MaxIncomingInputs)
    /\ pmPc = "pull inSyn"
    /\ pmM = 1
    /\ pmOs = <<>>

PmIdle ==
    /\ pmInSyn = <<>>
    /\ pmPc = "idle"
    /\ pmM = 0
    /\ pmOs = <<>>

PmNext ==
    \/ EmitPullInSyn
    \/ EmitPullVars
    \/ EmitApplyInput
    \/ EmitNeuronCode
    \/ EmitDecay
    \/ EmitPush
    \/ EndHandler

\* C29: every local postsynaptic-model variable lps<var><target> that the
\* handler stores back to global memory has been declared and loaded earlier
\* in the same handler, whatever the matrix type, with and without
\* INDIVIDUAL_PSM.
C29_StoredVarsWereLoaded ==
    \A i \in 1..Len(pmOs) :
        pmOs[i].kind = "store lps" =>
            \E j \in 1..(i - 1) :
                pmOs[j] = PsmStmt("declare lps", pmOs[i].name, pmOs[i].var)

\* the same statement for inputs whose matrix type has INDIVIDUAL_PSM
C29_StoredVarsWereLoadedIndividualPSM ==
    (\A m \in 1..Len(pmInSyn) : pmInSyn[m].individualPSM) => C29_StoredVarsWereLoaded

\* the namespaces opened in the emitted code around the code with the given kind
NamespacesAround(kind) ==
    [i \in 1..Len(SelectSeq(pmOs, LAMBDA x : x.kind = kind)) |->
        LET k == CHOOSE k \in 1..Len(pmOs) :
                    /\ pmOs[k].kind = kind
                    /\ Len(SelectSeq(SubSeq(pmOs, 1, k), LAMBDA x : x.kind = kind)) = i
        IN  IF k > 1 /\ pmOs[k - 1].kind = "using namespace"
            THEN <<pmOs[k - 1].name>> ELSE <<>>]

\* C30: for each incoming merged postsynaptic input whose postsynaptic model
\* has support code, the namespace opened around the apply-input code and
\* the namespace opened around the decay code are one and the same, also when
\* the postsynaptic model is merged.
C30_SameSupportCodeNamespace ==
    pmPc = "done" =>
        \A m \in 1..Len(pmInSyn) :
            pmInSyn[m].supportCode =>
                /\ NamespacesAround("psCode")[m] # <<>>
                /\ NamespacesAround("psCode")[m] = NamespacesAround("pdCode")[m]

\* the same statement for inputs whose postsynaptic model is not merged
C30_SameNamespaceUnlessMerged ==
    (\A m \in 1..Len(pmInSyn) : ~pmInSyn[m].psModelMerged) => C30_SameSupportCodeNamespace

(***************************************************************************)
(* Specifications, one per component                                       *)
(***************************************************************************)
MergeIdle ==
    /\ mpc = "idle"
    /\ canMerge = {}
    /\ filter = {}
    /\ unmergedGroups = <<>>
    /\ protoMergedGroups = <<>>
    /\ mergedGroups = <<>>

Init == MergeInit /\ DispIdle /\ DimIdle /\ StratIdle /\ KernIdle /\ ResetIdle /\ PsIdle /\ SynIdle /\ ArgIdle /\ DetIdle /\ RunIdle /\ NuIdle /\ CsIdle /\ DivIdle /\ EgpIdle /\ PostIdle /\ DdIdle /\ SbIdle /\ SiIdle /\ SgIdle /\ NbIdle /\ PmIdle

Next == MergeNext

Spec == Init /\ [][Next]_vars

InitDispatch == DispInit /\ MergeIdle /\ DimIdle /\ StratIdle /\ KernIdle /\ ResetIdle /\ PsIdle /\ SynIdle /\ ArgIdle /\ DetIdle /\ RunIdle /\ NuIdle /\ CsIdle /\ DivIdle /\ EgpIdle /\ PostIdle /\ DdIdle /\ SbIdle /\ SiIdle /\ SgIdle /\ NbIdle /\ PmIdle

NextDispatch == DispNext

SpecDispatch == InitDispatch /\ [][NextDispatch]_vars

InitDimensions == DimInit /\ MergeIdle /\ DispIdle /\ StratIdle /\ KernIdle /\ ResetIdle /\ PsIdle /\ SynIdle /\ ArgIdle /\ DetIdle /\ RunIdle /\ NuIdle /\ CsIdle /\ DivIdle /\ EgpIdle /\ PostIdle /\ DdIdle /\ SbIdle /\ SiIdle /\ SgIdle /\ NbIdle /\ PmIdle

NextDimensions == DimNext

SpecDimensions == InitDimensions /\ [][NextDimensions]_vars

InitStrategies == StratInit /\ MergeIdle /\ DispIdle /\ DimIdle /\ KernIdle /\ ResetIdle /\ PsIdle /\ SynIdle /\ ArgIdle /\ DetIdle /\ RunIdle /\ NuIdle /\ CsIdle /\ DivIdle /\ EgpIdle /\ PostIdle /\ DdIdle /\ SbIdle /\ SiIdle /\ SgIdle /\ NbIdle /\ PmIdle

NextStrategies == StratNext

SpecStrategies == InitStrategies /\ [][NextStrategies]_vars

InitNeuronKernel == KernInit /\ MergeIdle /\ DispIdle /\ DimIdle /\ StratIdle /\ ResetIdle /\ PsIdle /\ SynIdle /\ ArgIdle /\ DetIdle /\ RunIdle /\ NuIdle /\ CsIdle /\ DivIdle /\ EgpIdle /\ PostIdle /\ DdIdle /\ SbIdle /\ SiIdle /\ SgIdle /\ NbIdle /\ PmIdle

NextNeuronKernel == KernNext

SpecNeuronKernel == InitNeuronKernel /\ [][NextNeuronKernel]_vars

InitNeuronReset == ResetInit /\ MergeIdle /\ DispIdle /\ DimIdle /\ StratIdle /\ KernIdle /\ PsIdle /\ SynIdle /\ ArgIdle /\ DetIdle /\ RunIdle /\ NuIdle /\ CsIdle /\ DivIdle /\ EgpIdle /\ PostIdle /\ DdIdle /\ SbIdle /\ SiIdle /\ SgIdle /\ NbIdle /\ PmIdle

NextNeuronReset == ResetNext

SpecNeuronReset == InitNeuronReset /\ [][NextNeuronReset]_vars

InitPresynapticWriteBack == PsInit /\ DispIdle /\ DimIdle /\ StratIdle /\ KernIdle /\ ResetIdle /\ MergeIdle /\ SynIdle /\ ArgIdle /\ DetIdle /\ RunIdle /\ NuIdle /\ CsIdle /\ DivIdle /\ EgpIdle /\ PostIdle /\ DdIdle /\ SbIdle /\ SiIdle /\ SgIdle /\ NbIdle /\ PmIdle

NextPresynapticWriteBack == PsNext

SpecPresynapticWriteBack == InitPresynapticWriteBack /\ [][NextPresynapticWriteBack]_vars

InitSynapseUpdate == SynInit /\ DispIdle /\ DimIdle /\ StratIdle /\ KernIdle /\ ResetIdle /\ PsIdle /\ MergeIdle /\ ArgIdle /\ DetIdle /\ RunIdle /\ NuIdle /\ CsIdle /\ DivIdle /\ EgpIdle /\ PostIdle /\ DdIdle /\ SbIdle /\ SiIdle /\ SgIdle /\ NbIdle /\ PmIdle

NextSynapseUpdate == SynNext

SpecSynapseUpdate == InitSynapseUpdate /\ [][NextSynapseUpdate]_vars

InitKernelArgs == ArgInit /\ DispIdle /\ DimIdle /\ StratIdle /\ KernIdle /\ ResetIdle /\ PsIdle /\ SynIdle /\ MergeIdle /\ DetIdle /\ RunIdle /\ NuIdle /\ CsIdle /\ DivIdle /\ EgpIdle /\ PostIdle /\ DdIdle /\ SbIdle /\ SiIdle /\ SgIdle /\ NbIdle /\ PmIdle

NextKernelArgs == ArgNext

SpecKernelArgs == InitKernelArgs /\ [][NextKernelArgs]_vars

InitMergeDeterminism == DetInit /\ DispIdle /\ DimIdle /\ StratIdle /\ KernIdle /\ ResetIdle /\ PsIdle /\ SynIdle /\ ArgIdle /\ MergeIdle /\ RunIdle /\ NuIdle /\ CsIdle /\ DivIdle /\ EgpIdle /\ PostIdle /\ DdIdle /\ SbIdle /\ SiIdle /\ SgIdle /\ NbIdle /\ PmIdle

NextMergeDeterminism == DetNext

SpecMergeDeterminism == InitMergeDeterminism /\ [][NextMergeDeterminism]_vars

InitRegistryRun == RunInit /\ DispIdle /\ DimIdle /\ StratIdle /\ KernIdle /\ ResetIdle /\ PsIdle /\ SynIdle /\ ArgIdle /\ DetIdle /\ MergeIdle /\ NuIdle /\ CsIdle /\ DivIdle /\ EgpIdle /\ PostIdle /\ DdIdle /\ SbIdle /\ SiIdle /\ SgIdle /\ NbIdle /\ PmIdle

NextRegistryRun == RunNext

SpecRegistryRun == InitRegistryRun /\ [][NextRegistryRun]_vars

InitNeuronUpdateCode == NuInit /\ DispIdle /\ DimIdle /\ StratIdle /\ KernIdle /\ ResetIdle /\ PsIdle /\ SynIdle /\ ArgIdle /\ DetIdle /\ RunIdle /\ MergeIdle /\ CsIdle /\ DivIdle /\ EgpIdle /\ PostIdle /\ DdIdle /\ SbIdle /\ SiIdle /\ SgIdle /\ NbIdle /\ PmIdle

NextNeuronUpdateCode == NuNext

SpecNeuronUpdateCode == InitNeuronUpdateCode /\ [][NextNeuronUpdateCode]_vars

InitCodeStreamScopes == CsInit /\ DispIdle /\ DimIdle /\ StratIdle /\ KernIdle /\ ResetIdle /\ PsIdle /\ SynIdle /\ ArgIdle /\ DetIdle /\ RunIdle /\ NuIdle /\ MergeIdle /\ DivIdle /\ EgpIdle /\ PostIdle /\ DdIdle /\ SbIdle /\ SiIdle /\ SgIdle /\ NbIdle /\ PmIdle

NextCodeStreamScopes == CsNext

SpecCodeStreamScopes == InitCodeStreamScopes /\ [][NextCodeStreamScopes]_vars

InitDivideKernelStream == DivInit /\ DispIdle /\ DimIdle /\ StratIdle /\ KernIdle /\ ResetIdle /\ PsIdle /\ SynIdle /\ ArgIdle /\ DetIdle /\ RunIdle /\ NuIdle /\ CsIdle /\ MergeIdle /\ EgpIdle /\ PostIdle /\ DdIdle /\ SbIdle /\ SiIdle /\ SgIdle /\ NbIdle /\ PmIdle

NextDivideKernelStream == DivNext

SpecDivideKernelStream == InitDivideKernelStream /\ [][NextDivideKernelStream]_vars

InitExtraGlobalParams == EgpInit /\ DispIdle /\ DimIdle /\ StratIdle /\ KernIdle /\ ResetIdle /\ PsIdle /\ SynIdle /\ ArgIdle /\ DetIdle /\ RunIdle /\ NuIdle /\ CsIdle /\ DivIdle /\ MergeIdle /\ PostIdle /\ DdIdle /\ SbIdle /\ SiIdle /\ SgIdle /\ NbIdle /\ PmIdle

NextExtraGlobalParams == EgpNext

SpecExtraGlobalParams == InitExtraGlobalParams /\ [][NextExtraGlobalParams]_vars

InitPostsynapticStaging == PostInit /\ DispIdle /\ DimIdle /\ StratIdle /\ KernIdle /\ ResetIdle /\ PsIdle /\ SynIdle /\ ArgIdle /\ DetIdle /\ RunIdle /\ NuIdle /\ CsIdle /\ DivIdle /\ EgpIdle /\ MergeIdle /\ DdIdle /\ SbIdle /\ SiIdle /\ SgIdle /\ NbIdle /\ PmIdle

NextPostsynapticStaging == PostNext

SpecPostsynapticStaging == InitPostsynapticStaging /\ [][NextPostsynapticStaging]_vars

InitDendriticDelayReset == DdInit /\ DispIdle /\ DimIdle /\ StratIdle /\ KernIdle /\ ResetIdle /\ PsIdle /\ SynIdle /\ ArgIdle /\ DetIdle /\ RunIdle /\ NuIdle /\ CsIdle /\ DivIdle /\ EgpIdle /\ PostIdle /\ MergeIdle /\ SbIdle /\ SiIdle /\ SgIdle /\ NbIdle /\ PmIdle

NextDendriticDelayReset == DdNext

SpecDendriticDelayReset == InitDendriticDelayReset /\ [][NextDendriticDelayReset]_vars

InitStructBuild == SbInit /\ DispIdle /\ DimIdle /\ StratIdle /\ KernIdle /\ ResetIdle /\ PsIdle /\ SynIdle /\ ArgIdle /\ DetIdle /\ RunIdle /\ NuIdle /\ CsIdle /\ DivIdle /\ EgpIdle /\ PostIdle /\ DdIdle /\ MergeIdle /\ SiIdle /\ SgIdle /\ NbIdle /\ PmIdle

NextStructBuild == SbNext

SpecStructBuild == InitStructBuild /\ [][NextStructBuild]_vars

InitSparseInit == SiInit /\ DispIdle /\ DimIdle /\ StratIdle /\ KernIdle /\ ResetIdle /\ PsIdle /\ SynIdle /\ ArgIdle /\ DetIdle /\ RunIdle /\ NuIdle /\ CsIdle /\ DivIdle /\ EgpIdle /\ PostIdle /\ DdIdle /\ SbIdle /\ MergeIdle /\ SgIdle /\ NbIdle /\ PmIdle

NextSparseInit == SiNext

SpecSparseInit == InitSparseInit /\ [][NextSparseInit]_vars

InitSynapseGroupInternal == SgInit /\ DispIdle /\ DimIdle /\ StratIdle /\ KernIdle /\ ResetIdle /\ PsIdle /\ SynIdle /\ ArgIdle /\ DetIdle /\ RunIdle /\ NuIdle /\ CsIdle /\ DivIdle /\ EgpIdle /\ PostIdle /\ DdIdle /\ SbIdle /\ SiIdle /\ MergeIdle /\ NbIdle /\ PmIdle

NextSynapseGroupInternal == SgNext

SpecSynapseGroupInternal == InitSynapseGroupInternal /\ [][NextSynapseGroupInternal]_vars

InitNeuronBarriers == NbInit /\ DispIdle /\ DimIdle /\ StratIdle /\ KernIdle /\ ResetIdle /\ PsIdle /\ SynIdle /\ ArgIdle /\ DetIdle /\ RunIdle /\ NuIdle /\ CsIdle /\ DivIdle /\ EgpIdle /\ PostIdle /\ DdIdle /\ SbIdle /\ SiIdle /\ SgIdle /\ MergeIdle /\ PmIdle

NextNeuronBarriers == NbNext

SpecNeuronBarriers == InitNeuronBarriers /\ [][NextNeuronBarriers]_vars

InitPostsynapticModelCode == PmInit /\ DispIdle /\ DimIdle /\ StratIdle /\ KernIdle /\ ResetIdle /\ PsIdle /\ SynIdle /\ ArgIdle /\ DetIdle /\ RunIdle /\ NuIdle /\ CsIdle /\ DivIdle /\ EgpIdle /\ PostIdle /\ DdIdle /\ SbIdle /\ SiIdle /\ SgIdle /\ NbIdle /\ MergeIdle

NextPostsynapticModelCode == PmNext

SpecPostsynapticModelCode == InitPostsynapticModelCode /\ [][NextPostsynapticModelCode]_vars

====
